---- MODULE Spec2Model ----
(***************************************************************************)
(* Underrail save editor: the field patcher (parser/index.ts), the cursor  *)
(* reader and record decoder (parser/nrbf), the domain projector and the   *)
(* application store (state.ts).                                           *)
(***************************************************************************)
EXTENDS Integers, Sequences, FiniteSets, TLC

VARIABLES
    heap,       \* ArrayBuffer storage: buffer id -> sequence of bytes
    rawData,    \* patch call: id of the buffer passed as rawData
    entities,   \* patch call: the Skill[] / Attribute[] argument
    changes,    \* patch call: the changes Map, in insertion order
    patched,    \* patch call: outcome ([status, ref])
    pc,         \* patch call: "ready" before the call, "done" after it
    state,      \* state.ts: the AppState held by the store
    reader,     \* a BinaryReader and the outcome of the last call on it
    parser      \* a decode: the file's bytes, and what parseNrbf and the projector made of them

patchVars == <<heap, rawData, entities, changes, patched, pc>>
storeVars == <<state>>
readerVars == <<reader>>
decodeVars == <<parser>>
vars == <<patchVars, storeVars, readerVars, decodeVars>>

----------------------------------------------------------------------------
(* Optional values: a TypeScript `x?: number` is <<>> (undefined) or <<x>>. *)
Undefined == <<>>
Some(x) == <<x>>
IsDefined(o) == o # <<>>
Get(o) == o[1]
Option(S) == {Undefined} \cup {Some(x) : x \in S}

Byte == 0..255

----------------------------------------------------------------------------
(* Bounds of the patch model.                                               *)
MaxBufLen == 9
MaxEntities == 2

----------------------------------------------------------------------------
(* Field patcher.                                                           *)

\* DataView.getInt32(pos, true) over the 4 bytes from 0-based `pos`
getInt32(bytes, pos) ==
    bytes[pos + 1] + 256 * bytes[pos + 2] + 65536 * bytes[pos + 3]
        + 16777216 * (IF bytes[pos + 4] >= 128 THEN bytes[pos + 4] - 256 ELSE bytes[pos + 4])

\* DataView.setInt32(offset, value, true): the 4 little-endian bytes of value
EncodeInt32BE(value) == [k \in 1..4 |-> (value \div (256 ^ (4 - k))) % 256]
EncodeInt32LE(value) == [k \in 1..4 |-> (value \div (256 ^ (k - 1))) % 256]

\* Bytes of `bytes` with the 4 bytes from 0-based `offset` replaced
Overwrite4(bytes, offset, four) ==
    [p \in 1..Len(bytes) |->
        IF p > offset /\ p <= offset + 4 THEN four[p - offset] ELSE bytes[p]]

\* A variant that writes the bytes that fall inside the storage and drops
\* the others
writeInt32Clipped(h, data, offset, value) ==
    [heap |-> [h EXCEPT ![data] = Overwrite4(@, offset, EncodeInt32LE(value))],
     threw |-> FALSE]
\* writeInt32(data, offset, value): writes through a DataView over the
\* storage of `data`; DataView.setInt32 throws RangeError when the 4 bytes
\* do not lie inside the view.
writeInt32(h, data, offset, value) ==
    IF offset < 0 \/ offset + 4 > Len(h[data])
    THEN [heap |-> h, threw |-> TRUE]
    ELSE [heap |-> [h EXCEPT ![data] = Overwrite4(@, offset, EncodeInt32LE(value))],
          threw |-> FALSE]

\* new Uint8Array(typedArray): allocates fresh storage holding a copy
FreshId(h) == CHOOSE i \in 1..(Cardinality(DOMAIN h) + 1) : i \notin DOMAIN h
AliasUint8Array(h, src) == [heap |-> h, ref |-> src]
ZeroedUint8Array(h, src) ==
    LET id == FreshId(h) IN [heap |-> h @@ (id :> [p \in 1..Len(h[src]) |-> 0]), ref |-> id]
NewUint8Array(h, src) ==
    LET id == FreshId(h) IN [heap |-> h @@ (id :> h[src]), ref |-> id]

\* skills[index]: undefined outside the array
HasEntity(list, index) == index >= 0 /\ index < Len(list)

\* One iteration of `for (const [index, change] of changes)`
PatchEntryStrict(h, dst, list, change) ==
    IF ~HasEntity(list, change.index) THEN [heap |-> h, threw |-> TRUE]
    ELSE LET e == list[change.index + 1]
             w1 == IF IsDefined(change.base) /\ IsDefined(e.baseOffset)
                   THEN writeInt32(h, dst, Get(e.baseOffset), Get(change.base))
                   ELSE [heap |-> h, threw |-> FALSE]
         IN IF w1.threw THEN w1
            ELSE IF IsDefined(change.effective) /\ IsDefined(e.effectiveOffset)
                 THEN writeInt32(w1.heap, dst, Get(e.effectiveOffset), Get(change.effective))
                 ELSE w1
PatchEntry(h, dst, list, change) ==
    IF ~HasEntity(list, change.index) THEN [heap |-> h, threw |-> FALSE]
    ELSE LET e == list[change.index + 1]
             w1 == IF IsDefined(change.base) /\ IsDefined(e.baseOffset)
                   THEN writeInt32(h, dst, Get(e.baseOffset), Get(change.base))
                   ELSE [heap |-> h, threw |-> FALSE]
         IN IF w1.threw THEN w1
            ELSE IF IsDefined(change.effective) /\ IsDefined(e.effectiveOffset)
                 THEN writeInt32(w1.heap, dst, Get(e.effectiveOffset), Get(change.effective))
                 ELSE w1

RECURSIVE PatchLoop(_, _, _, _, _)
PatchLoop(h, dst, list, chg, k) ==
    IF k > Len(chg) THEN [heap |-> h, threw |-> FALSE]
    ELSE LET r == PatchEntry(h, dst, list, chg[k])
         IN IF r.threw THEN r ELSE PatchLoop(r.heap, dst, list, chg, k + 1)

\* patchSkills(rawData, skills, changes): [heap, status, ref]
patchSkills(h, raw, skillList, chg) ==
    LET copy == NewUint8Array(h, raw)
        r == PatchLoop(copy.heap, copy.ref, skillList, chg, 1)
    IN [heap |-> r.heap,
        status |-> IF r.threw THEN "threw" ELSE "returned",
        ref |-> IF r.threw THEN 0 ELSE copy.ref]

\* patchAttributes(rawData, attributes, changes): the same loop over attributes
patchAttributes(h, raw, attrList, chg) ==
    LET copy == NewUint8Array(h, raw)
        r == PatchLoop(copy.heap, copy.ref, attrList, chg, 1)
    IN [heap |-> r.heap,
        status |-> IF r.threw THEN "threw" ELSE "returned",
        ref |-> IF r.threw THEN 0 ELSE copy.ref]

----------------------------------------------------------------------------
(* Application store (state.ts). null is <<>>, a value x is <<x>>.          *)
Null == <<>>

initialState ==
    [fileName |-> Null, header |-> Null, rawData |-> Null, saveData |-> Null,
     isLoading |-> FALSE, error |-> Null, editMode |-> FALSE, hasChanges |-> FALSE,
     activeTab |-> "stats"]

Tabs == {"stats", "equipment", "inventory", "feats"}

Max(a, b) == IF a >= b THEN a ELSE b

\* setState(updates): state = { ...state, ...updates }
setState(st, updates) ==
    [f \in DOMAIN st |-> IF f \in DOMAIN updates THEN updates[f] ELSE st[f]]

startLoading(st) == setState(st, [isLoading |-> TRUE, error |-> Null])

\* A variant that keeps the name of the file loaded before
fileLoadedKeepingName(st, fileName, saveData, header, raw) ==
    setState(st, [fileName |-> IF st.fileName = Null THEN Some(fileName) ELSE st.fileName,
                  saveData |-> Some(saveData),
                  header |-> Some(header), rawData |-> Some(raw),
                  isLoading |-> FALSE, error |-> Null, hasChanges |-> FALSE])
fileLoaded(st, fileName, saveData, header, raw) ==
    setState(st, [fileName |-> Some(fileName), saveData |-> Some(saveData),
                  header |-> Some(header), rawData |-> Some(raw),
                  isLoading |-> FALSE, error |-> Null, hasChanges |-> FALSE])

loadError(st, error) == setState(st, [isLoading |-> FALSE, error |-> Some(error)])

toggleEditMode(st, enabled) == setState(st, [editMode |-> enabled])

switchTab(st, tab) == setState(st, [activeTab |-> tab])

\* The entity edited in place: base = newBase, effective = max(floor,
\* newBase + (effective - base))
EditedExact(e, newBase, floor) ==
    [e EXCEPT !.base = newBase, !.effective = newBase + (e.effective - e.base)]
Edited(e, newBase, floor) ==
    [e EXCEPT !.base = newBase,
              !.effective = Max(floor, newBase + (e.effective - e.base))]

updateSkillValue(st, index, newBase) ==
    IF ~IsDefined(st.saveData) THEN st
    ELSE LET saveData == Get(st.saveData) IN
         IF ~HasEntity(saveData.skills, index) THEN st
         ELSE setState(st,
                [saveData |-> Some([saveData EXCEPT
                                      !.skills[index + 1] = Edited(@, newBase, 0)]),
                 hasChanges |-> TRUE])

updateAttributeValue(st, index, newBase) ==
    IF ~IsDefined(st.saveData) THEN st
    ELSE LET saveData == Get(st.saveData) IN
         IF ~HasEntity(saveData.attributes, index) THEN st
         ELSE setState(st,
                [saveData |-> Some([saveData EXCEPT
                                      !.attributes[index + 1] = Edited(@, newBase, 1)]),
                 hasChanges |-> TRUE])

resetState(st) == initialState

\* The early returns of updateSkillValue and updateAttributeValue: no save, or
\* no entity at the index
updateSkillValue_returns(st, index) ==
    ~IsDefined(st.saveData) \/ ~HasEntity(Get(st.saveData).skills, index)
\* A variant of the early return that lets an update of an attribute without
\* an entity through
updateAttributeValue_returnsNever(st, index) == FALSE
updateAttributeValue_returns(st, index) ==
    ~IsDefined(st.saveData) \/ ~HasEntity(Get(st.saveData).attributes, index)

\* The subscribers are a Set: callbacks in the order they were added, none
\* twice. subscribe adds, the function it returns deletes.
subscribe(subscribers, callback) ==
    IF \E i \in 1..Len(subscribers) : subscribers[i] = callback THEN subscribers
    ELSE Append(subscribers, callback)
unsubscribe(subscribers, callback) ==
    SelectSeq(subscribers, LAMBDA c : c # callback)

\* A variant that stops after the first subscriber
notifySubscribersFirst(st, subscribers) ==
    [i \in 1..(IF subscribers = <<>> THEN 0 ELSE 1) |-> [callback |-> subscribers[i], state |-> st]]
\* notifySubscribers: the invocations callback(state) it makes, in order, `st`
\* being the store at the time of the loop
notifySubscribers(st, subscribers) ==
    [i \in 1..Len(subscribers) |-> [callback |-> subscribers[i], state |-> st]]

----------------------------------------------------------------------------
(* Cursor reader (class BinaryReader). A reader is a record with the view's *)
(* bytes `data`, the bytes `after` that follow the view in its ArrayBuffer  *)
(* (none when the Uint8Array spans its buffer), the position `pos`, and the *)
(* outcome of the last call: `err` (NoErr or the error thrown) and `val`.   *)
NoErr == "none"
Throw(r, e) == [r EXCEPT !.err = e, !.errOffset = Undefined]
Remaining(r) == Len(r.data) - r.pos

\* DataView getters throw RangeError unless pos..pos+n lies inside the view
InView(r, n) == r.pos >= 0 /\ r.pos + n <= Len(r.data)

\* 32-bit two's complement bit operations of JavaScript (|, <<)
Bit(x, i) == IF i = 31 THEN x < 0 ELSE ((x \div (2 ^ i)) % 2) = 1
Bits(x) == {i \in 0..31 : Bit(x, i)}
RECURSIVE SumPow2(_)
SumPow2(B) == IF B = {} THEN 0
              ELSE LET i == CHOOSE j \in B : TRUE IN 2 ^ i + SumPow2(B \ {i})
FromBits(B) == IF 31 \in B THEN (SumPow2(B \ {31}) - 2147483647) - 1 ELSE SumPow2(B)
Or32(a, b) == FromBits(Bits(a) \cup Bits(b))
Shl32(a, n) == FromBits({i + (n % 32) : i \in Bits(a)} \cap (0..31))

getUint8(bytes, pos) == bytes[pos + 1]
getUint16(bytes, pos) == bytes[pos + 1] + 256 * bytes[pos + 2]
getInt16(bytes, pos) ==
    LET u == getUint16(bytes, pos) IN IF u >= 32768 THEN u - 65536 ELSE u

\* Values wider than the integers TLC computes with (Uint32, 64-bit, floats)
\* are kept as the little-endian bytes they are decoded from.
Wide(kind, bytes) == [t |-> kind, bytes |-> bytes]

readByteUnchecked(r) ==
    IF r.err # NoErr THEN r
    ELSE [r EXCEPT !.val = IF InView(r, 1) THEN getUint8(r.data, r.pos) ELSE 0,
                   !.pos = @ + 1]
readByte(r) ==
    IF r.err # NoErr THEN r
    ELSE IF ~InView(r, 1) THEN Throw(r, "RangeError")
    ELSE [r EXCEPT !.val = getUint8(r.data, r.pos), !.pos = @ + 1]

\* A variant that returns the bytes and leaves the position where it was
readBytesStill(r, count) ==
    IF r.err # NoErr THEN r
    ELSE IF count < 0 \/ r.pos + count > Len(r.data) + Len(r.after)
    THEN Throw(r, "RangeError")
    ELSE [r EXCEPT !.val = SubSeq(r.data \o r.after, r.pos + 1, r.pos + count)]
\* new Uint8Array(view.buffer, view.byteOffset + pos, count): checked against
\* the ArrayBuffer, not against the view
readBytes(r, count) ==
    IF r.err # NoErr THEN r
    ELSE IF count < 0 \/ r.pos + count > Len(r.data) + Len(r.after)
    THEN Throw(r, "RangeError")
    ELSE [r EXCEPT !.val = SubSeq(r.data \o r.after, r.pos + 1, r.pos + count),
                   !.pos = @ + count]

readInt16(r) ==
    IF r.err # NoErr THEN r
    ELSE IF ~InView(r, 2) THEN Throw(r, "RangeError")
    ELSE [r EXCEPT !.val = getInt16(r.data, r.pos), !.pos = @ + 2]

readUInt16(r) ==
    IF r.err # NoErr THEN r
    ELSE IF ~InView(r, 2) THEN Throw(r, "RangeError")
    ELSE [r EXCEPT !.val = getUint16(r.data, r.pos), !.pos = @ + 2]

readInt32(r) ==
    IF r.err # NoErr THEN r
    ELSE IF ~InView(r, 4) THEN Throw(r, "RangeError")
    ELSE [r EXCEPT !.val = getInt32(r.data, r.pos), !.pos = @ + 4]

\* A variant that takes the offset after the read
readInt32TrackedLate(r) ==
    IF r.err # NoErr THEN r
    ELSE IF ~InView(r, 4) THEN Throw(r, "RangeError")
    ELSE [r EXCEPT !.val = [t |-> "tracked", value |-> getInt32(r.data, r.pos),
                            offset |-> r.pos + 4],
                   !.pos = @ + 4]
readInt32Tracked(r) ==
    IF r.err # NoErr THEN r
    ELSE IF ~InView(r, 4) THEN Throw(r, "RangeError")
    ELSE [r EXCEPT !.val = [t |-> "tracked", value |-> getInt32(r.data, r.pos),
                            offset |-> r.pos],
                   !.pos = @ + 4]

readUInt32(r) ==
    IF r.err # NoErr THEN r
    ELSE IF ~InView(r, 4) THEN Throw(r, "RangeError")
    ELSE [r EXCEPT !.val = Wide("UInt32", SubSeq(r.data, r.pos + 1, r.pos + 4)),
                   !.pos = @ + 4]

\* low = getUint32(pos), high = getInt32(pos + 4): both must be in the view
readInt64(r) ==
    IF r.err # NoErr THEN r
    ELSE IF ~InView(r, 4) \/ ~InView(r, 8) THEN Throw(r, "RangeError")
    ELSE [r EXCEPT !.val = Wide("Int64", SubSeq(r.data, r.pos + 1, r.pos + 8)),
                   !.pos = @ + 8]

readUInt64(r) ==
    IF r.err # NoErr THEN r
    ELSE IF ~InView(r, 4) \/ ~InView(r, 8) THEN Throw(r, "RangeError")
    ELSE [r EXCEPT !.val = Wide("UInt64", SubSeq(r.data, r.pos + 1, r.pos + 8)),
                   !.pos = @ + 8]

readFloat(r) ==
    IF r.err # NoErr THEN r
    ELSE IF ~InView(r, 4) THEN Throw(r, "RangeError")
    ELSE [r EXCEPT !.val = Wide("Single", SubSeq(r.data, r.pos + 1, r.pos + 4)),
                   !.pos = @ + 4]

readDouble(r) ==
    IF r.err # NoErr THEN r
    ELSE IF ~InView(r, 8) THEN Throw(r, "RangeError")
    ELSE [r EXCEPT !.val = Wide("Double", SubSeq(r.data, r.pos + 1, r.pos + 8)),
                   !.pos = @ + 8]

readBoolean(r) ==
    LET b == readByte(r) IN IF b.err # NoErr THEN b ELSE [b EXCEPT !.val = (b.val # 0)]

\* do { byte = readByte(); result |= (byte & 0x7f) << shift; shift += 7 }
\* while (byte & 0x80)
RECURSIVE read7BitLoop(_, _, _)
read7BitLoop_byte(b, result, shift) ==
    IF b.err # NoErr THEN b
    ELSE IF b.val >= 128
    THEN read7BitLoop(b, Or32(result, Shl32(b.val % 128, shift)), shift + 7)
    ELSE [b EXCEPT !.val = Or32(result, Shl32(b.val % 128, shift))]
read7BitLoop(r, result, shift) == read7BitLoop_byte(readByte(r), result, shift)
read7BitEncodedInt(r) == IF r.err # NoErr THEN r ELSE read7BitLoop(r, 0, 0)

\* TextDecoder('utf-8').decode: a leading byte order mark is dropped; the
\* string is kept as its UTF-8 code units
Utf8Bom == <<239, 187, 191>>
TextDecode(bytes) ==
    IF Len(bytes) >= 3 /\ SubSeq(bytes, 1, 3) = Utf8Bom
    THEN SubSeq(bytes, 4, Len(bytes)) ELSE bytes

readString_bytes(bytes) ==
    IF bytes.err # NoErr THEN bytes ELSE [bytes EXCEPT !.val = TextDecode(bytes.val)]
readString_length(length) ==
    IF length.err # NoErr THEN length
    ELSE IF length.val = 0 THEN [length EXCEPT !.val = <<>>]
    ELSE readString_bytes(readBytes(length, length.val))
readString(r) == readString_length(read7BitEncodedInt(r))

peekByte(r) ==
    IF r.err # NoErr THEN r
    ELSE IF ~InView(r, 1) THEN Throw(r, "RangeError")
    ELSE [r EXCEPT !.val = getUint8(r.data, r.pos)]

skip(r, count) == IF r.err # NoErr THEN r ELSE [r EXCEPT !.pos = @ + count]

\* new BinaryReader(buffer)
NewReader(data, after) ==
    [data |-> data, after |-> after, pos |-> 0, err |-> NoErr, errOffset |-> Undefined,
     val |-> 0]

----------------------------------------------------------------------------
(* Record decoder (class NrbfParser). The parser state extends the reader   *)
(* record with records, objects, classInfos, libraries, and `met`: the      *)
(* malformations the decoder came upon, and `log`: the class records that   *)
(* came without a schema of their own (bookkeeping for the properties).     *)

RT_SerializedStreamHeader == 0
RT_ClassWithId == 1
RT_SystemClassWithMembers == 2
RT_ClassWithMembers == 3
RT_SystemClassWithMembersAndTypes == 4
RT_ClassWithMembersAndTypes == 5
RT_BinaryObjectString == 6
RT_BinaryArray == 7
RT_MemberPrimitiveTyped == 8
RT_MemberReference == 9
RT_ObjectNull == 10
RT_MessageEnd == 11
RT_BinaryLibrary == 12
RT_ObjectNullMultiple256 == 13
RT_ObjectNullMultiple == 14
RT_ArraySinglePrimitive == 15
RT_ArraySingleObject == 16
RT_ArraySingleString == 17
RecordTypes == 0..17

PT_Boolean == 1
PT_Byte == 2
PT_Char == 3
PT_Decimal == 5
PT_Double == 6
PT_Int16 == 7
PT_Int32 == 8
PT_Int64 == 9
PT_SByte == 10
PT_Single == 11
PT_TimeSpan == 12
PT_DateTime == 13
PT_UInt16 == 14
PT_UInt32 == 15
PT_UInt64 == 16
PT_Null == 17
PT_String == 18
PrimitiveTypes == (1..18) \ {4}

BT_Primitive == 0
BT_String == 1
BT_Object == 2
BT_SystemClass == 3
BT_Class == 4
BT_ObjectArray == 5
BT_StringArray == 6
BT_PrimitiveArray == 7
BinaryTypes == 0..7

\* Member names that mark a stat container: 'S4:V' and 'S4:MV'
S4_V == <<83, 52, 58, 86>>
S4_MV == <<83, 52, 58, 77, 86>>

\* JavaScript values of the decoded graph
Num(v) == [t |-> "number", v |-> v]
Bool(v) == [t |-> "boolean", v |-> v]
Str(v) == [t |-> "string", v |-> v]
Char(code) == [t |-> "char", code |-> code]
JsNull == [t |-> "null"]
JsUndefined == [t |-> "undefined"]
Reference(id) == [t |-> "reference", reference |-> id]
ObjString(value, id) == [t |-> "obj_string", value |-> value, obj_string_id |-> id]
ClassId(cls) == [t |-> "class_id", class_id |-> cls]
ClassRecord(cls) == [t |-> "class", class |-> cls]
ArrayRecord(id, elements) == [t |-> "array", array_id |-> id, elements |-> elements]

\* Map.set / Map.get on integer keys
MapSet(m, k, v) == (k :> v) @@ m
MapHas(m, k) == k \in DOMAIN m

\* members[name] = value on a Record<string, unknown>, in insertion order
MemberIndex(members, name) ==
    IF \E i \in 1..Len(members) : members[i].name = name
    THEN CHOOSE i \in 1..Len(members) : members[i].name = name ELSE 0
SetMember(members, name, value) ==
    IF MemberIndex(members, name) # 0
    THEN [members EXCEPT ![MemberIndex(members, name)].value = value]
    ELSE Append(members, [name |-> name, value |-> value])

\* A variant that keeps the schemas of the parser of the call before
KeptParser(data) ==
    [data |-> data, after |-> <<>>, pos |-> 0, err |-> NoErr, errOffset |-> Undefined,
     val |-> 0, records |-> <<>>, objects |-> <<>>,
     classInfos |-> IF "prev" \in DOMAIN parser THEN parser.prev.classInfos ELSE <<>>,
     libraries |-> <<>>, met |-> {}, log |-> <<>>]
\* new NrbfParser(data) followed by the resets at the start of parse()
NewParser(data) ==
    [data |-> data, after |-> <<>>, pos |-> 0, err |-> NoErr, errOffset |-> Undefined,
     val |-> 0, records |-> <<>>, objects |-> <<>>, classInfos |-> <<>>,
     libraries |-> <<>>, met |-> {}, log |-> <<>>]

\* throw new Error(...): `offset` is the byte offset the message reports
Fail(s, e, offset) == [s EXCEPT !.err = e, !.errOffset = offset, !.met = @ \cup {e}]
Met(s, what) == [s EXCEPT !.met = @ \cup {what}]
\* A failed read inside a record is a truncated read
Guard(s) == IF s.err = "RangeError" THEN [s EXCEPT !.met = @ \cup {"RangeError"}] ELSE s

\* A read whose value is wrapped, if it did not throw
Returning(r, value) == IF r.err # NoErr THEN r ELSE [r EXCEPT !.val = value]
AsNum(r) == Returning(r, Num(r.val))
AsBool(r) == Returning(r, Bool(r.val))
AsStr(r) == Returning(r, Str(r.val))
AsChar(r) == Returning(r, Char(r.val))
AsNumber64(kind, r) == Returning(r, Wide(kind, r.val.bytes))
AsReference(r) == Returning(r, Reference(r.val))
\* The null returned for a run-length marker; `count` is the count that was
\* read (bookkeeping: the value is null)
NullRun(r) == Returning(r, [t |-> "null", count |-> r.val])

parseSerializedStreamHeader(s) ==
    LET rootId == readInt32(s)
        headerId == readInt32(rootId)
        majorVersion == readInt32(headerId)
        minorVersion == readInt32(majorVersion)
    IN IF minorVersion.err # NoErr THEN minorVersion
       ELSE [minorVersion EXCEPT !.objects =
                MapSet(@, 0, [t |-> "header", rootId |-> rootId.val,
                              headerId |-> headerId.val,
                              majorVersion |-> majorVersion.val,
                              minorVersion |-> minorVersion.val])]

parseBinaryLibrary(s) ==
    LET libraryId == readInt32(s)
        libraryName == readString(libraryId)
    IN IF libraryName.err # NoErr THEN libraryName
       ELSE [libraryName EXCEPT !.libraries = MapSet(@, libraryId.val, libraryName.val)]

\* objects.set(objectId, { value, obj_string_id: objectId })
BinaryObjectStringRead(objectId, value) ==
    IF value.err # NoErr THEN value
    ELSE [value EXCEPT
            !.objects = MapSet(@, objectId.val, ObjString(value.val, objectId.val)),
            !.val = ObjString(value.val, objectId.val)]
\* As a record of its own the string is stored and nothing is returned
parseBinaryObjectString_objectId(objectId) ==
    Returning(BinaryObjectStringRead(objectId, readString(objectId)), JsUndefined)
parseBinaryObjectString(s) == parseBinaryObjectString_objectId(readInt32(s))

\* A loop that pushes what each of its n reads returns: the list so far is
\* held in s.val, and the loop is split in halves so that the evaluation
\* does not nest one level per element
Pushing(r, acc) == IF r.err # NoErr THEN r ELSE [r EXCEPT !.val = Append(acc, r.val)]
Listing(s) == IF s.err # NoErr THEN s ELSE [s EXCEPT !.val = <<>>]

\* The number of reads a loop of n reads gets to make: each takes at least
\* one byte, so one of the first Remaining(s) + 1 fails
Reads(s, n) ==
    IF Remaining(s) < 0 THEN IF n > 1 THEN 1 ELSE n
    ELSE IF n > Remaining(s) + 1 THEN Remaining(s) + 1 ELSE n

\* for (i < memberCount) memberNames.push(readString())
RECURSIVE readStrings(_, _)
readStrings(s, n) ==
    IF s.err # NoErr \/ n <= 0 THEN s
    ELSE IF n = 1 THEN Pushing(readString(s), s.val)
    ELSE readStrings(readStrings(s, n \div 2), n - n \div 2)

\* readClassInfo, continued after objectId, name and memberCount were read
readClassInfo_memberNames(objectId, name, memberCount, memberNames) ==
    Returning(memberNames,
              [objectId |-> objectId.val, name |-> name.val,
               memberCount |-> memberCount.val, memberNames |-> memberNames.val,
               memberTypes |-> <<>>, libraryId |-> Undefined, isSystem |-> FALSE])
readClassInfo_memberCount(objectId, name, memberCount) ==
    readClassInfo_memberNames(objectId, name, memberCount,
        readStrings(Listing(memberCount), Reads(memberCount, memberCount.val)))
readClassInfo_name(objectId, name) ==
    readClassInfo_memberCount(objectId, name, readInt32(name))
readClassInfo_objectId(objectId) == readClassInfo_name(objectId, readString(objectId))
readClassInfo(s) == readClassInfo_objectId(readInt32(s))

\* A declared primitive type outside the enumeration is stored as it is
PrimitiveTypeDeclared(b) ==
    IF b.err # NoErr THEN b
    ELSE IF b.val \in PrimitiveTypes THEN AsNum(b)
    ELSE Met(AsNum(b), "PrimitiveTypeDeclared")
ClassTypeRead(className, libraryId) == Returning(libraryId, Str(className.val))
readAdditionalTypeInfo_className(className) == ClassTypeRead(className, readInt32(className))

\* val: the additional info (number, string or null) of one binary type; a
\* binary type outside the enumeration has none
readAdditionalTypeInfo(s, binaryType) ==
    IF s.err # NoErr THEN s
    ELSE IF binaryType \in {BT_Primitive, BT_PrimitiveArray}
    THEN PrimitiveTypeDeclared(readByte(s))
    ELSE IF binaryType = BT_SystemClass THEN AsStr(readString(s))
    ELSE IF binaryType = BT_Class THEN readAdditionalTypeInfo_className(readString(s))
    ELSE IF binaryType \in BinaryTypes THEN Returning(s, JsNull)
    ELSE Met(Returning(s, JsNull), "BinaryTypeDeclared")

RECURSIVE readBinaryTypes(_, _)
readBinaryTypes(s, n) ==
    IF s.err # NoErr \/ n <= 0 THEN s
    ELSE IF n = 1 THEN Pushing(readByte(s), s.val)
    ELSE readBinaryTypes(readBinaryTypes(s, n \div 2), n - n \div 2)

RECURSIVE readAdditionalInfos(_, _, _, _)
readAdditionalInfos_info(r, binaryTypes, i, acc) ==
    IF r.err # NoErr THEN r
    ELSE [r EXCEPT !.val =
             Append(acc, [binaryType |-> binaryTypes[i], additionalInfo |-> r.val])]
readAdditionalInfos(s, binaryTypes, lo, hi) ==
    IF s.err # NoErr \/ lo > hi THEN s
    ELSE IF lo = hi
    THEN readAdditionalInfos_info(readAdditionalTypeInfo(s, binaryTypes[lo]),
                                  binaryTypes, lo, s.val)
    ELSE readAdditionalInfos(readAdditionalInfos(s, binaryTypes, lo, (lo + hi) \div 2),
                             binaryTypes, (lo + hi) \div 2 + 1, hi)

readMemberTypeInfo_binaryTypes(binaryTypes) ==
    IF binaryTypes.err # NoErr THEN binaryTypes
    ELSE readAdditionalInfos(Listing(binaryTypes), binaryTypes.val, 1,
                             Len(binaryTypes.val))
readMemberTypeInfo(s, memberCount) ==
    readMemberTypeInfo_binaryTypes(readBinaryTypes(Listing(s), memberCount))

readPrimitive(s, primitiveType, trackOffset) ==
    IF s.err # NoErr THEN s
    ELSE IF primitiveType = PT_Boolean THEN AsBool(readBoolean(s))
    ELSE IF primitiveType = PT_Byte THEN AsNum(readByte(s))
    ELSE IF primitiveType = PT_SByte THEN AsNum(Returning(readByte(s), readByte(s).val - 128))
    ELSE IF primitiveType = PT_Char THEN AsChar(readUInt16(s))
    ELSE IF primitiveType = PT_Int16 THEN AsNum(readInt16(s))
    ELSE IF primitiveType = PT_UInt16 THEN AsNum(readUInt16(s))
    ELSE IF primitiveType = PT_Int32
    THEN IF trackOffset THEN readInt32Tracked(s) ELSE AsNum(readInt32(s))
    ELSE IF primitiveType = PT_UInt32 THEN readUInt32(s)
    ELSE IF primitiveType = PT_Int64 THEN AsNumber64("Number(Int64)", readInt64(s))
    ELSE IF primitiveType = PT_UInt64 THEN AsNumber64("Number(UInt64)", readUInt64(s))
    ELSE IF primitiveType = PT_Single THEN readFloat(s)
    ELSE IF primitiveType = PT_Double THEN readDouble(s)
    ELSE IF primitiveType = PT_String THEN AsStr(readString(s))
    ELSE IF primitiveType = PT_DateTime THEN readInt64(s)
    ELSE IF primitiveType = PT_TimeSpan THEN readInt64(s)
    ELSE IF primitiveType = PT_Decimal THEN AsStr(readString(s))
    ELSE Fail(s, "UnknownPrimitiveType", Undefined)

NrbfClass(name, id, members) ==
    [t |-> "nrbf_class", name |-> name, id |-> id, members |-> members]
createClassRecord(classInfo, members) ==
    ClassRecord(NrbfClass(classInfo.name, classInfo.objectId, members))

\* records.push(record); objects.set(id, record)
PushRecord(s, id, record) ==
    [s EXCEPT !.records = Append(@, record), !.objects = MapSet(@, id, record)]

\* The record of an array whose elements were read
ArrayRead(objectId, elements) ==
    IF elements.err # NoErr THEN elements
    ELSE PushRecord(elements, objectId.val, ArrayRecord(objectId.val, elements.val))

\* lengths.reduce((a, b) => a * b, 1), cut off beyond the number of bytes of
\* the buffer: every element read takes at least one byte or throws, so a
\* larger count behaves as this one
Clamp(x, cap) == IF x > cap THEN cap ELSE IF x < 0 - cap THEN 0 - cap ELSE x
RECURSIVE Product(_, _, _)
Product(lengths, i, cap) ==
    IF i > Len(lengths) THEN 1
    ELSE Clamp(Clamp(lengths[i], cap) * Product(lengths, i + 1, cap), cap)

RECURSIVE readInt32s(_, _, _)
readInt32s(s, n, acc) ==
    IF s.err # NoErr THEN s
    ELSE IF n <= 0 THEN [s EXCEPT !.val = acc]
    ELSE LET r == readInt32(s) IN readInt32s(r, n - 1, Append(acc, r.val))

RECURSIVE readPrimitives(_, _, _, _)
readPrimitives(s, primitiveType, n, acc) ==
    IF s.err # NoErr THEN s
    ELSE IF n <= 0 THEN [s EXCEPT !.val = acc]
    ELSE LET r == readPrimitive(s, primitiveType, FALSE) IN
         readPrimitives(r, primitiveType, n - 1, Append(acc, r.val))

\* parseArraySinglePrimitive: the primitive type is looked at by
\* readPrimitive only, once per element
parseArraySinglePrimitive_primitiveType(objectId, length, primitiveType) ==
    ArrayRead(objectId,
              readPrimitives(IF primitiveType.err = NoErr
                                /\ primitiveType.val \notin PrimitiveTypes
                             THEN Met(primitiveType, "PrimitiveTypeDeclared")
                             ELSE primitiveType,
                             primitiveType.val, length.val, <<>>))
parseArraySinglePrimitive_length(objectId, length) ==
    parseArraySinglePrimitive_primitiveType(objectId, length, readByte(length))
parseArraySinglePrimitive_objectId(objectId) ==
    parseArraySinglePrimitive_length(objectId, readInt32(objectId))
parseArraySinglePrimitive(s) == parseArraySinglePrimitive_objectId(readInt32(s))

parseMemberReference(s) == readInt32(s)

parseMemberPrimitiveTyped_primitiveType(primitiveType) ==
    IF primitiveType.err # NoErr THEN primitiveType
    ELSE readPrimitive(primitiveType, primitiveType.val, FALSE)
parseMemberPrimitiveTyped(s) == parseMemberPrimitiveTyped_primitiveType(readByte(s))

RECURSIVE parseRecord(_, _)
RECURSIVE readInlineValue(_)
RECURSIVE readInlineValues(_, _, _)
RECURSIVE readMembersLoop(_, _, _, _)

readMemberValue(s, typeInfo, trackOffsets) ==
    IF s.err # NoErr THEN s
    ELSE IF typeInfo.binaryType = BT_Primitive
    THEN readPrimitive(s, typeInfo.additionalInfo.v, trackOffsets)
    ELSE IF typeInfo.binaryType \in {BT_String, BT_Object, BT_SystemClass, BT_Class,
                                     BT_ObjectArray, BT_StringArray, BT_PrimitiveArray}
    THEN readInlineValue(s)
    ELSE Returning(s, JsNull)

\* trackOffset = hasStatMembers && (memberName === 'S4:V' || 'S4:MV')
TrackOffset(classInfo, i) ==
    /\ \E j \in 1..Len(classInfo.memberNames) : classInfo.memberNames[j] \in {S4_V, S4_MV}
    /\ classInfo.memberNames[i] \in {S4_V, S4_MV}

\* members[memberName] = <the value read>, then the next member
\* The loop of readMembers over the members lo..hi, the members read so far
\* held in s.val; the range is split in halves so that the evaluation does
\* not nest one level per member
readMembersLoop_value(r, classInfo, i, members) ==
    IF r.err # NoErr THEN r
    ELSE [r EXCEPT !.val = SetMember(members, classInfo.memberNames[i], r.val)]
readMembersLoop(s, classInfo, lo, hi) ==
    IF s.err # NoErr \/ lo > hi THEN s
    ELSE IF lo = hi
    THEN readMembersLoop_value(
             IF lo <= Len(classInfo.memberTypes)
             THEN readMemberValue(s, classInfo.memberTypes[lo], TrackOffset(classInfo, lo))
             ELSE readInlineValue(s),
             classInfo, lo, s.val)
    ELSE readMembersLoop(readMembersLoop(s, classInfo, lo, (lo + hi) \div 2),
                         classInfo, (lo + hi) \div 2 + 1, hi)
readMembers(s, classInfo) ==
    IF s.err # NoErr THEN s
    ELSE readMembersLoop([s EXCEPT !.val = <<>>], classInfo, 1, classInfo.memberCount)

\* const record = createClassRecord(classInfo, members); objects.set;
\* records.push
ClassRead(classInfo, members) ==
    IF members.err # NoErr THEN members
    ELSE PushRecord(members, classInfo.objectId, createClassRecord(classInfo, members.val))
\* A variant that registers the schema when the members have been read
ClassInfoReadLate(s, classInfo) ==
    IF s.err # NoErr THEN s
    ELSE ClassRead(classInfo,
                   [readMembers(s, classInfo) EXCEPT
                       !.classInfos = MapSet(@, classInfo.objectId, classInfo)])
\* classInfos.set(objectId, classInfo); const members = readMembers(classInfo)
ClassInfoRead(s, classInfo) ==
    IF s.err # NoErr THEN s
    ELSE ClassRead(classInfo,
                   readMembers([s EXCEPT !.classInfos = MapSet(@, classInfo.objectId, classInfo)],
                               classInfo))
\* Bookkeeping: a class record without member types, the place of its
\* record in the list and whether a schema of that class name was seen before
WithoutTypes(s, classInfo) ==
    [e |-> "WithoutTypes", objectId |-> classInfo.objectId, record |-> Len(s.records) + 1,
     memberNames |-> classInfo.memberNames,
     known |-> \E id \in DOMAIN s.classInfos : s.classInfos[id].name = classInfo.name]
\* "For now, skip member reading": the record gets no members
ClassInfoReadOnly(s, classInfo) ==
    IF s.err # NoErr THEN s
    ELSE PushRecord([s EXCEPT !.classInfos = MapSet(@, classInfo.objectId, classInfo),
                              !.log = Append(@, WithoutTypes(s, classInfo))],
                    classInfo.objectId, createClassRecord(classInfo, <<>>))

parseClassWithMembersAndTypes_libraryId(info, memberTypeInfo, libraryId) ==
    ClassInfoRead(libraryId, [info.val EXCEPT !.memberTypes = memberTypeInfo.val,
                                              !.libraryId = Some(libraryId.val)])
parseClassWithMembersAndTypes_memberTypeInfo(info, memberTypeInfo) ==
    parseClassWithMembersAndTypes_libraryId(info, memberTypeInfo, readInt32(memberTypeInfo))
parseClassWithMembersAndTypes_classInfo(info) ==
    parseClassWithMembersAndTypes_memberTypeInfo(
        info, readMemberTypeInfo(info, info.val.memberCount))
parseClassWithMembersAndTypes(s) ==
    parseClassWithMembersAndTypes_classInfo(readClassInfo(s))

parseSystemClassWithMembersAndTypes_memberTypeInfo(info, memberTypeInfo) ==
    ClassInfoRead(memberTypeInfo, [info.val EXCEPT !.memberTypes = memberTypeInfo.val,
                                                   !.isSystem = TRUE])
parseSystemClassWithMembersAndTypes_classInfo(info) ==
    parseSystemClassWithMembersAndTypes_memberTypeInfo(
        info, readMemberTypeInfo(info, info.val.memberCount))
parseSystemClassWithMembersAndTypes(s) ==
    parseSystemClassWithMembersAndTypes_classInfo(readClassInfo(s))

parseClassWithMembers_libraryId(info, libraryId) ==
    ClassInfoReadOnly(libraryId, [info.val EXCEPT !.libraryId = Some(libraryId.val)])
parseClassWithMembers_classInfo(info) ==
    parseClassWithMembers_libraryId(info, readInt32(info))
parseClassWithMembers(s) == parseClassWithMembers_classInfo(readClassInfo(s))

parseSystemClassWithMembers_classInfo(info) ==
    ClassInfoReadOnly(info, [info.val EXCEPT !.isSystem = TRUE])
parseSystemClassWithMembers(s) == parseSystemClassWithMembers_classInfo(readClassInfo(s))

\* Bookkeeping: an instance decoded with the schema registered under
\* metadataId, the place of its record in the list, the schema, and the
\* instance that was in the graph under metadataId when it was looked up
parseClassWithId_members(metadataId, r) ==
    IF r.err # NoErr THEN r
    ELSE [r EXCEPT !.log =
            Append(@, [e |-> "ClassWithId", metadataId |-> metadataId.val,
                       record |-> Len(r.records),
                       schema |-> metadataId.classInfos[metadataId.val],
                       origin |-> IF MapHas(metadataId.objects, metadataId.val)
                                  THEN Some(metadataId.objects[metadataId.val])
                                  ELSE Undefined])]
parseClassWithId_metadataId(objectId, metadataId) ==
    IF metadataId.err # NoErr THEN metadataId
    ELSE IF ~MapHas(metadataId.classInfos, metadataId.val)
    THEN Fail(metadataId, "UnknownClass", Undefined)
    ELSE parseClassWithId_members(
             metadataId,
             ClassInfoRead(metadataId,
                           [metadataId.classInfos[metadataId.val] EXCEPT
                               !.objectId = objectId.val]))
parseClassWithId_objectId(objectId) ==
    parseClassWithId_metadataId(objectId, readInt32(objectId))
parseClassWithId(s) == parseClassWithId_objectId(readInt32(s))

\* elements.push(readInlineValue()), n more times
readInlineValues_value(r, n, acc) == readInlineValues(r, n - 1, Append(acc, r.val))
readInlineValues(s, n, acc) ==
    IF s.err # NoErr THEN s
    ELSE IF n <= 0 THEN [s EXCEPT !.val = acc]
    ELSE readInlineValues_value(readInlineValue(s), n, acc)

parseArraySingleObject_length(objectId, length) ==
    ArrayRead(objectId, readInlineValues(length, length.val, <<>>))
parseArraySingleObject_objectId(objectId) ==
    parseArraySingleObject_length(objectId, readInt32(objectId))
parseArraySingleObject(s) == parseArraySingleObject_objectId(readInt32(s))

parseArraySingleString_length(objectId, length) ==
    ArrayRead(objectId, readInlineValues(length, length.val, <<>>))
parseArraySingleString_objectId(objectId) ==
    parseArraySingleString_length(objectId, readInt32(objectId))
parseArraySingleString(s) == parseArraySingleString_objectId(readInt32(s))

\* parseBinaryArray, continued after each of its reads
parseBinaryArray_additionalInfo(objectId, lengths, typeInfo, additionalInfo) ==
    IF additionalInfo.err # NoErr THEN additionalInfo
    ELSE ArrayRead(objectId,
             IF typeInfo.val = BT_Primitive
             THEN readPrimitives(additionalInfo, additionalInfo.val.v,
                                 Product(lengths.val, 1, Len(additionalInfo.data) + 1), <<>>)
             ELSE readInlineValues(additionalInfo,
                                   Product(lengths.val, 1, Len(additionalInfo.data) + 1),
                                   <<>>))
parseBinaryArray_typeInfo(objectId, lengths, typeInfo) ==
    parseBinaryArray_additionalInfo(objectId, lengths, typeInfo,
                                    readAdditionalTypeInfo(typeInfo, typeInfo.val))
parseBinaryArray_lowerBounds(objectId, lengths, lowerBounds) ==
    parseBinaryArray_typeInfo(objectId, lengths, readByte(lowerBounds))
parseBinaryArray_lengths(objectId, arrayType, rank, lengths) ==
    parseBinaryArray_lowerBounds(objectId, lengths,
        IF lengths.err = NoErr /\ arrayType.val \in {3, 4, 5}
        THEN readInt32s(lengths, rank.val, <<>>) ELSE lengths)
parseBinaryArray_rank(objectId, arrayType, rank) ==
    parseBinaryArray_lengths(objectId, arrayType, rank, readInt32s(rank, rank.val, <<>>))
parseBinaryArray_arrayType(objectId, arrayType) ==
    parseBinaryArray_rank(objectId, arrayType, readInt32(arrayType))
parseBinaryArray_objectId(objectId) ==
    parseBinaryArray_arrayType(objectId, readByte(objectId))
parseBinaryArray(s) == parseBinaryArray_objectId(readInt32(s))

\* The value of a nested record: { class_id: cls } when the last record is a
\* class with a truthy id, that record itself otherwise
readInlineValue_recordFirst(r) ==
    IF r.err # NoErr THEN r
    ELSE IF Len(r.records) = 0 THEN Returning(r, JsUndefined)
    ELSE IF r.records[1].t = "class" /\ r.records[1].class.id # 0
    THEN Returning(r, ClassId(r.records[1].class))
    ELSE Returning(r, r.records[1])
readInlineValue_record(r) ==
    IF r.err # NoErr THEN r
    ELSE IF Len(r.records) = 0 THEN Returning(r, JsUndefined)
    ELSE IF r.records[Len(r.records)].t = "class" /\ r.records[Len(r.records)].class.id # 0
    THEN Returning(r, ClassId(r.records[Len(r.records)].class))
    ELSE Returning(r, r.records[Len(r.records)])

\* objects.set(objectId, ...); return { value, obj_string_id: objectId }
readInlineValue_objectId(objectId) == BinaryObjectStringRead(objectId, readString(objectId))

readInlineValue_recordType(recordType) ==
    IF recordType.err # NoErr THEN recordType
    ELSE IF recordType.val = RT_MemberReference THEN AsReference(readInt32(recordType))
    ELSE IF recordType.val = RT_ObjectNull THEN Returning(recordType, JsNull)
    ELSE IF recordType.val = RT_BinaryObjectString
    THEN readInlineValue_objectId(readInt32(recordType))
    ELSE IF recordType.val = RT_MemberPrimitiveTyped
    THEN parseMemberPrimitiveTyped(recordType)
    ELSE IF recordType.val \in {RT_ClassWithMembersAndTypes, RT_SystemClassWithMembersAndTypes,
                                RT_ClassWithMembers, RT_SystemClassWithMembers,
                                RT_ClassWithId, RT_BinaryArray, RT_ArraySinglePrimitive,
                                RT_ArraySingleObject, RT_ArraySingleString}
    THEN readInlineValue_record(parseRecord(recordType, recordType.val))
    ELSE IF recordType.val = RT_ObjectNullMultiple256
    THEN NullRun(readByte(recordType))
    ELSE IF recordType.val = RT_ObjectNullMultiple
    THEN NullRun(readInt32(recordType))
    ELSE Fail(recordType, "UnexpectedRecordType", Undefined)
readInlineValue(s) == readInlineValue_recordType(readByte(s))

parseRecord(s, recordType) ==
    IF s.err # NoErr THEN s
    ELSE IF recordType = RT_SerializedStreamHeader THEN parseSerializedStreamHeader(s)
    ELSE IF recordType = RT_ClassWithId THEN parseClassWithId(s)
    ELSE IF recordType = RT_ClassWithMembersAndTypes THEN parseClassWithMembersAndTypes(s)
    ELSE IF recordType = RT_SystemClassWithMembersAndTypes
    THEN parseSystemClassWithMembersAndTypes(s)
    ELSE IF recordType = RT_ClassWithMembers THEN parseClassWithMembers(s)
    ELSE IF recordType = RT_SystemClassWithMembers THEN parseSystemClassWithMembers(s)
    ELSE IF recordType = RT_BinaryObjectString THEN parseBinaryObjectString(s)
    ELSE IF recordType = RT_BinaryArray THEN parseBinaryArray(s)
    ELSE IF recordType = RT_MemberReference THEN parseMemberReference(s)
    ELSE IF recordType = RT_BinaryLibrary THEN parseBinaryLibrary(s)
    ELSE IF recordType = RT_ObjectNull THEN s
    ELSE IF recordType = RT_ObjectNullMultiple256 THEN readByte(s)
    ELSE IF recordType = RT_ObjectNullMultiple THEN readInt32(s)
    ELSE IF recordType = RT_ArraySinglePrimitive THEN parseArraySinglePrimitive(s)
    ELSE IF recordType = RT_ArraySingleObject THEN parseArraySingleObject(s)
    ELSE IF recordType = RT_ArraySingleString THEN parseArraySingleString(s)
    ELSE IF recordType = RT_MemberPrimitiveTyped THEN parseMemberPrimitiveTyped(s)
    ELSE Fail(s, "UnknownRecordType", Some(s.pos - 1))

\* while (remaining > 0) { recordType = readByte(); if (recordType ===
\* MessageEnd) break; parseRecord(recordType) }
RECURSIVE parseLoop(_)
parseLoop_recordType(recordType) ==
    IF recordType.err # NoErr THEN recordType
    ELSE IF recordType.val = RT_MessageEnd THEN recordType
    ELSE parseLoop(parseRecord(recordType, recordType.val))
parseLoop(s) ==
    IF s.err # NoErr THEN s
    ELSE IF Remaining(s) <= 0 THEN s
    ELSE parseLoop_recordType(readByte(s))

\* parseNrbf(data): the final parser state; records are returned when err is
\* NoErr, otherwise the error propagates to the caller
parseNrbf(data) == Guard(parseLoop(NewParser(data)))

----------------------------------------------------------------------------
(* Projector: from the record list to the character sheet.                  *)

\* Member names the projector looks up
TG == <<84, 71>>
TG_PC == <<84, 71, 58, 80, 67>>
C1_N == <<67, 49, 58, 78>>
C1_L == <<67, 49, 58, 76>>
C1_S == <<67, 49, 58, 83>>
S3_S_Count == <<83, 51, 58, 83, 58, 67, 111, 117, 110, 116>>
S3_S_ == <<83, 51, 58, 83, 58>>
C1_BA == <<67, 49, 58, 66, 65>>
BA3_BA_Count == <<66, 65, 51, 58, 66, 65, 58, 67, 111, 117, 110, 116>>
BA3_BA_ == <<66, 65, 51, 58, 66, 65, 58>>
value__ == <<118, 97, 108, 117, 101, 95, 95>>

\* `${i}` for i >= 0
RECURSIVE Decimal(_)
Decimal(i) == IF i < 10 THEN <<48 + i>> ELSE Decimal(i \div 10) \o <<48 + (i % 10)>>

\* Number of entity indices the projector loops are followed through: the
\* skills of the game with its expansion, and one more
MaxIndex == 25

MapGet(m, k) == IF k \in DOMAIN m THEN m[k] ELSE JsUndefined
Lookup(members, key) ==
    IF MemberIndex(members, key) # 0 THEN members[MemberIndex(members, key)].value
    ELSE JsUndefined
HasMembers(obj) == obj.t = "nrbf_class"

\* JavaScript truthiness and typeof x === 'number'
AllZero(bytes) == \A i \in 1..Len(bytes) : bytes[i] = 0
IsNaN(v) ==
    \/ /\ v.t = "Single"
       /\ (v.bytes[4] % 128) * 2 + (v.bytes[3] \div 128) = 255
       /\ ~(v.bytes[3] % 128 = 0 /\ v.bytes[2] = 0 /\ v.bytes[1] = 0)
    \/ /\ v.t = "Double"
       /\ (v.bytes[8] % 128) * 16 + (v.bytes[7] \div 16) = 2047
       /\ ~(v.bytes[7] % 16 = 0 /\ AllZero(SubSeq(v.bytes, 1, 6)))
IsNumber(v) ==
    v.t \in {"number", "UInt32", "Single", "Double", "Number(Int64)", "Number(UInt64)"}
Falsy(v) ==
    \/ v.t \in {"undefined", "null"}
    \/ v.t = "number" /\ v.v = 0
    \/ v.t = "boolean" /\ ~v.v
    \/ v.t = "string" /\ v.v = <<>>
    \/ v.t \in {"UInt32", "Int64", "UInt64", "Number(Int64)", "Number(UInt64)"}
       /\ AllZero(v.bytes)
    \/ v.t \in {"Single", "Double"}
       /\ \/ AllZero(SubSeq(v.bytes, 1, Len(v.bytes) - 1)) /\ v.bytes[Len(v.bytes)] % 128 = 0
          \/ IsNaN(v)

\* The map buildRefMap fills while it walks the records: every id a class
\* or an array was registered under, with the last record registered under it
RefId(record) == IF record.t = "class" THEN record.class.id ELSE record.array_id
RefValue(record) == IF record.t = "class" THEN record.class ELSE record
LastWith(records, id) ==
    CHOOSE i \in 1..Len(records) :
        /\ RefId(records[i]) = id
        /\ \A j \in (i + 1)..Len(records) : RefId(records[j]) # id
buildRefMap(records) ==
    [id \in {RefId(records[i]) : i \in 1..Len(records)} |->
        RefValue(records[LastWith(records, id)])]

getMember(obj, key, refMap) ==
    IF ~HasMembers(obj) THEN JsUndefined
    ELSE LET value == Lookup(obj.members, key) IN
         IF value.t = "reference" THEN MapGet(refMap, value.reference)
         ELSE IF value.t = "obj_string" THEN Str(value.value)
         ELSE IF value.t = "tracked" THEN Num(value.value)
         ELSE IF value.t = "class_id"
         THEN IF MemberIndex(value.class_id.members, value__) # 0
              THEN Lookup(value.class_id.members, value__)
              ELSE value.class_id
         ELSE value

getMemberRaw(obj, key, refMap) ==
    IF ~HasMembers(obj) THEN JsUndefined
    ELSE LET value == Lookup(obj.members, key) IN
         IF value.t = "tracked" \/ IsNumber(value) THEN value
         ELSE IF value.t = "reference"
         THEN LET resolved == MapGet(refMap, value.reference) IN
              IF HasMembers(resolved) /\ MemberIndex(resolved.members, key) # 0
              THEN Lookup(resolved.members, key) ELSE resolved
         ELSE IF value.t = "class_id"
         THEN IF MemberIndex(value.class_id.members, key) # 0
              THEN Lookup(value.class_id.members, key)
              ELSE value.class_id
         ELSE value

\* value: a plain integer for an Int32, Int16, Byte or SByte member, the
\* wide number as decoded otherwise
extractTrackedValue(raw, defaultValue) ==
    IF raw.t = "tracked" THEN [value |-> raw.value, offset |-> Some(raw.offset)]
    ELSE IF raw.t = "number" THEN [value |-> raw.v, offset |-> Undefined]
    ELSE IF IsNumber(raw) THEN [value |-> raw, offset |-> Undefined]
    ELSE [value |-> defaultValue, offset |-> Undefined]

\* i < count for the loop variable i and whatever the Count member holds
\* (a count kept as a wide or floating point number is not followed)
Below(i, count) ==
    IF count.t = "number" THEN i < count.v
    ELSE IF count.t = "boolean" THEN count.v /\ i < 1
    ELSE FALSE

\* The loop of extractSkills / extractAttributes over `${prefix}${i}`: the
\* indices the loop visits, those whose member is truthy, and the entry
\* pushed for each of them, in increasing order of i
Indices(count) == {i \in 0..(MaxIndex - 1) : Below(i, count)}
StatEntry(stat, i, refMap) ==
    LET base == extractTrackedValue(getMemberRaw(stat, S4_V, refMap), 0)
        effective == extractTrackedValue(getMemberRaw(stat, S4_MV, refMap), base.value)
    IN [index |-> i, base |-> base.value, effective |-> effective.value,
        baseOffset |-> base.offset, effectiveOffset |-> effective.offset]
Pushed(present, p) == CHOOSE i \in present : Cardinality({j \in present : j < i}) = p - 1
extractStats_present(container, prefix, present, refMap) ==
    [p \in 1..Cardinality(present) |->
        StatEntry(getMember(container, prefix \o Decimal(Pushed(present, p)), refMap),
                  Pushed(present, p), refMap)]
extractStats(container, prefix, count, refMap) ==
    extractStats_present(container, prefix,
        {i \in Indices(count) :
            ~Falsy(getMember(container, prefix \o Decimal(i), refMap))},
        refMap)

OrElse(v, defaultValue) == IF Falsy(v) THEN defaultValue ELSE v

extractAttributes(player, refMap) ==
    LET attrsContainer == getMember(player, C1_BA, refMap) IN
    IF Falsy(attrsContainer) THEN <<>>
    ELSE extractStats(attrsContainer, BA3_BA_,
                      OrElse(getMember(attrsContainer, BA3_BA_Count, refMap), Num(0)),
                      refMap)

\* Skill names and categories (parser/types)
SKILL_NAMES_BASE ==
    <<"Guns", "Heavy Guns", "Throwing", "Crossbows", "Melee",
      "Dodge", "Evasion",
      "Stealth", "Hacking", "Lockpicking", "Pickpocketing", "Traps",
      "Mechanics", "Electronics", "Chemistry", "Biology", "Tailoring",
      "Thought Control", "Psychokinesis", "Metathermics",
      "Persuasion", "Intimidation", "Mercantile">>
SKILL_NAMES_DLC ==
    <<"Guns", "Heavy Guns", "Throwing", "Crossbows", "Melee",
      "Dodge", "Evasion",
      "Stealth", "Hacking", "Lockpicking", "Pickpocketing", "Traps",
      "Mechanics", "Electronics", "Chemistry", "Biology", "Tailoring",
      "Thought Control", "Psychokinesis", "Metathermics", "Temporal Manipulation",
      "Persuasion", "Intimidation", "Mercantile">>
\* SKILL_CATEGORIES[i] is element i + 1
SKILL_CATEGORIES ==
    <<"Offense", "Offense", "Offense", "Offense", "Offense",
      "Defense", "Defense",
      "Subterfuge", "Subterfuge", "Subterfuge", "Subterfuge", "Subterfuge",
      "Technology", "Technology", "Technology", "Technology", "Technology",
      "Psi", "Psi", "Psi", "Psi",
      "Social", "Social", "Social">>
getSkillNames(count) ==
    IF count.t = "number" /\ count.v >= 24 THEN SKILL_NAMES_DLC ELSE SKILL_NAMES_BASE

\* name: skillNames[i] || `Skill ${i}`, category: SKILL_CATEGORIES[i] || 'Other'
NamedSkill(skill, skillNames) ==
    [index |-> skill.index, base |-> skill.base, effective |-> skill.effective,
     baseOffset |-> skill.baseOffset, effectiveOffset |-> skill.effectiveOffset,
     name |-> IF skill.index < Len(skillNames) THEN skillNames[skill.index + 1]
              ELSE "Skill " \o ToString(skill.index),
     category |-> IF skill.index < Len(SKILL_CATEGORIES)
                  THEN SKILL_CATEGORIES[skill.index + 1] ELSE "Other"]
NamedSkills(skills, skillNames) ==
    [p \in 1..Len(skills) |-> NamedSkill(skills[p], skillNames)]

extractSkills_count(skillsContainer, count, refMap) ==
    NamedSkills(extractStats(skillsContainer, S3_S_, count, refMap),
                getSkillNames(count))
extractSkills(player, refMap) ==
    LET skillsContainer == getMember(player, C1_S, refMap) IN
    IF Falsy(skillsContainer) THEN <<>>
    ELSE extractSkills_count(skillsContainer,
                             OrElse(getMember(skillsContainer, S3_S_Count, refMap), Num(0)),
                             refMap)

\* recordsToSaveData: the stat lists of the sheet, or the error it throws
recordsToSaveData(records) ==
    LET refMap == buildRefMap(records)
        roots == {i \in 1..Len(records) :
                     records[i].t = "class" /\ records[i].class.name = TG}
        root == records[CHOOSE i \in roots : \A j \in roots : i <= j].class
        playerRef == getMember(root, TG_PC, refMap)
    IN IF roots = {} THEN [err |-> "Could not find root TG object", saveData |-> Undefined]
       ELSE IF Falsy(playerRef)
       THEN [err |-> "Could not find player object", saveData |-> Undefined]
       ELSE [err |-> NoErr,
             saveData |-> Some([attributes |-> extractAttributes(playerRef, refMap),
                                skills |-> extractSkills(playerRef, refMap)])]

\* isPacked: the gzip magic bytes follow the 24-byte header
HEADER_SIZE == 24
isPacked(data) ==
    IF Len(data) < HEADER_SIZE + 2 THEN FALSE
    ELSE data[HEADER_SIZE + 1] = 31 /\ data[HEADER_SIZE + 2] = 139

\* The gzip pair of the pako library, as an inverse pair: the packed form
\* starts with the magic bytes and the deflate method, carries the bytes in a
\* form of their own and ends with the length modulo 256; inflate throws on
\* anything that is not such a form
GZIP_MAGIC == <<31, 139>>
GZIP_DEFLATE == 8
Packed(b) == (b + 101) % 256
Unpacked(b) == (b + 155) % 256
pako_deflate(data) ==
    GZIP_MAGIC \o <<GZIP_DEFLATE>>
    \o [i \in 1..Len(data) |-> Packed(data[Len(data) + 1 - i])]
    \o <<Len(data) % 256>>
pako_inflate(compressed) ==
    IF /\ Len(compressed) >= 4
       /\ SubSeq(compressed, 1, 3) = GZIP_MAGIC \o <<GZIP_DEFLATE>>
       /\ compressed[Len(compressed)] = (Len(compressed) - 4) % 256
    THEN [err |-> NoErr,
          val |-> [i \in 1..(Len(compressed) - 4) |->
                      Unpacked(compressed[Len(compressed) - i])]]
    ELSE [err |-> "Failed to decompress save file", val |-> <<>>]

\* data.slice(start, end) of a Uint8Array
Slice(data, start, end) ==
    SubSeq(data, start + 1, IF end > Len(data) THEN Len(data) ELSE end)
extractHeader(data) == Slice(data, 0, HEADER_SIZE)
decompress(data) ==
    IF ~isPacked(data) THEN [err |-> NoErr, val |-> data]
    ELSE pako_inflate(Slice(data, HEADER_SIZE, Len(data)))
\* A variant that puts the header behind the compressed bytes
compressHeaderLast(data, header) == pako_deflate(data) \o header
compress(data, header) == header \o pako_deflate(data)

\* parseRawData / parseSaveFile of a file that is not packed: the header is
\* 24 zero bytes and the payload is the file itself
parseRawData_saveData(data, sheet) ==
    [err |-> sheet.err, saveData |-> sheet.saveData,
     header |-> [i \in 1..HEADER_SIZE |-> 0], rawData |-> data]
parseRawData_records(data, parsed) ==
    IF parsed.err # NoErr THEN [err |-> parsed.err, saveData |-> Undefined]
    ELSE parseRawData_saveData(data, recordsToSaveData(parsed.records))
parseRawData(data) == parseRawData_records(data, parseNrbf(data))

\* parseSaveFile: the header of a packed file or 24 zero bytes, the payload
\* decompress returns, its records, and the sheet projected from them
Failed(err) == [err |-> err, saveData |-> Undefined, header |-> <<>>, rawData |-> <<>>]
parseSaveFile_saveData(header, uncompressed, sheet) ==
    IF sheet.err # NoErr THEN Failed(sheet.err)
    ELSE [err |-> NoErr, saveData |-> sheet.saveData, header |-> header,
          rawData |-> uncompressed]
parseSaveFile_records(header, uncompressed, parsed) ==
    IF parsed.err # NoErr THEN Failed(parsed.err)
    ELSE parseSaveFile_saveData(header, uncompressed, recordsToSaveData(parsed.records))
parseSaveFile_uncompressed(header, uncompressed) ==
    IF uncompressed.err # NoErr THEN Failed(uncompressed.err)
    ELSE parseSaveFile_records(header, uncompressed.val, parseNrbf(uncompressed.val))
parseSaveFile(data) ==
    parseSaveFile_uncompressed(
        IF isPacked(data) THEN extractHeader(data) ELSE [i \in 1..HEADER_SIZE |-> 0],
        decompress(data))

----------------------------------------------------------------------------
(* Inputs of the patch model.                                               *)

\* Two byte patterns: distinct bytes, and one that already holds, at the
\* offsets the entities use, the encodings of the values the requests write.
PatternA(n) == [p \in 1..n |-> 16 + p]
PatternB(n) == [p \in 1..n |->
                  (<<9>> \o EncodeInt32LE(42) \o EncodeInt32LE(-2))[((p - 1) % 9) + 1]]
PatchBuffers == {PatternA(3), PatternA(6), PatternA(MaxBufLen), PatternB(MaxBufLen)}

\* Offsets as one decode records them. Against the 6-byte buffer offset 5
\* leaves fewer than 4 bytes, against the 3-byte buffer both do.
Offsets == {1, 5}
Entity == [baseOffset : Option(Offsets), effectiveOffset : Option(Offsets)]

\* Offsets recorded by one decode are starts of distinct 4-byte reads of a
\* forward-only reader: two of them are equal or at least 4 apart, and the
\* S4:V and S4:MV of one entity are different reads.
DefinedOffsets(list) ==
    {Get(list[i].baseOffset) : i \in {j \in 1..Len(list) : IsDefined(list[j].baseOffset)}}
    \cup {Get(list[i].effectiveOffset) : i \in {j \in 1..Len(list) : IsDefined(list[j].effectiveOffset)}}
Apart(a, b) == a = b \/ a - b >= 4 \/ b - a >= 4
TrackedDisjoint(list) ==
    /\ \A a, b \in DefinedOffsets(list) : Apart(a, b)
    /\ \A i \in 1..Len(list) :
          IsDefined(list[i].baseOffset) /\ IsDefined(list[i].effectiveOffset)
              => list[i].baseOffset # list[i].effectiveOffset

SeqsUpTo(S, n) == UNION {[1..k -> S] : k \in 0..n}
EntityLists == {l \in SeqsUpTo(Entity, MaxEntities) : TrackedDisjoint(l)}

\* A changes Map: distinct keys, listed in insertion order. Every entry
\* writes the same two values, so the order of the keys is not observable
\* and the maps are enumerated with ascending keys. Index MaxEntities - 1
\* has no entity in the shorter lists.
Change == [index : 0..(MaxEntities - 1), base : Option({42}), effective : Option({-2})]
ChangeMaps == {c \in SeqsUpTo(Change, MaxEntities) :
                 \A i, j \in 1..Len(c) : i < j => c[i].index < c[j].index}

NoResult == [fn |-> "none", status |-> "none", ref |-> 0]

PatchInit ==
    /\ \E b \in PatchBuffers : heap = (1 :> b)
    /\ rawData = 1
    /\ entities \in EntityLists
    /\ changes \in ChangeMaps
    /\ patched = NoResult
    /\ pc = "ready"

PatchSkills ==
    /\ pc = "ready"
    /\ LET r == patchSkills(heap, rawData, entities, changes)
       IN /\ heap' = r.heap
          /\ patched' = [fn |-> "patchSkills", status |-> r.status, ref |-> r.ref]
    /\ pc' = "done"
    /\ UNCHANGED <<rawData, entities, changes, storeVars, readerVars, decodeVars>>

PatchAttributes ==
    /\ pc = "ready"
    /\ LET r == patchAttributes(heap, rawData, entities, changes)
       IN /\ heap' = r.heap
          /\ patched' = [fn |-> "patchAttributes", status |-> r.status, ref |-> r.ref]
    /\ pc' = "done"
    /\ UNCHANGED <<rawData, entities, changes, storeVars, readerVars, decodeVars>>

PatchNext == PatchSkills \/ PatchAttributes

IdleReader == reader = [op |-> "none", start |-> 0, need |-> 0, r |-> NewReader(<<>>, <<>>)]
IdleParser == parser = [phase |-> "idle"]

Init == PatchInit /\ state = initialState /\ IdleReader /\ IdleParser

Spec == Init /\ [][PatchNext]_vars

----------------------------------------------------------------------------
(* Inputs and specification of the store model.                             *)

\* Files the store is given: what parseSaveFile resolved to for two saves
\* (a bonus from gear, a penalty, no modifier).
Stat(i, b, e, bo) ==
    [index |-> i, base |-> b, effective |-> e,
     baseOffset |-> Some(bo), effectiveOffset |-> Some(bo + 4)]
StoreFiles ==
    {[fileName |-> "global.dat",
      saveData |-> [skills |-> <<Stat(0, 20, 30, 40)>>, attributes |-> <<Stat(0, 5, 7, 20)>>],
      header |-> <<1>>, rawData |-> <<1, 1>>],
     [fileName |-> "other.dat",
      saveData |-> [skills |-> <<Stat(0, 20, 10, 60), Stat(1, 0, 0, 80)>>,
                    attributes |-> <<Stat(0, 3, 3, 30)>>],
      header |-> <<2>>, rawData |-> <<2, 2>>]}
\* parseInt of a number input: the UI suggests 0..999 for skills and 1..99
\* for attributes but passes any integer on
NewBases == {-5, 0, 5, 100}
EditIndices == 0..2
LoadErrors == {"Could not find root TG object"}

IdlePatch ==
    /\ heap = <<>>
    /\ rawData = 0
    /\ entities = <<>>
    /\ changes = <<>>
    /\ patched = NoResult
    /\ pc = "idle"

StoreInit == IdlePatch /\ IdleReader /\ IdleParser /\ state = initialState

\* The store is the only part that moves
StoreOnly == UNCHANGED <<patchVars, readerVars, decodeVars>>

StartLoading == state' = startLoading(state) /\ StoreOnly
FileLoaded ==
    \E f \in StoreFiles :
        state' = fileLoaded(state, f.fileName, f.saveData, f.header, f.rawData) /\ StoreOnly
LoadError == \E e \in LoadErrors : state' = loadError(state, e) /\ StoreOnly
ToggleEditMode == \E enabled \in BOOLEAN : state' = toggleEditMode(state, enabled) /\ StoreOnly
SwitchTab == \E tab \in Tabs : state' = switchTab(state, tab) /\ StoreOnly
UpdateSkillValue ==
    \E index \in EditIndices, newBase \in NewBases :
        state' = updateSkillValue(state, index, newBase) /\ StoreOnly
UpdateAttributeValue ==
    \E index \in EditIndices, newBase \in NewBases :
        state' = updateAttributeValue(state, index, newBase) /\ StoreOnly
ResetState == state' = resetState(state) /\ StoreOnly

StoreNext ==
    \/ StartLoading \/ FileLoaded \/ LoadError \/ ToggleEditMode \/ SwitchTab
    \/ UpdateSkillValue \/ UpdateAttributeValue \/ ResetState

SpecStore == StoreInit /\ [][StoreNext]_vars


----------------------------------------------------------------------------
(* Inputs and specification of the reader model: any sequence of calls on   *)
(* one reader. A call after a thrown error starts from the position the     *)
(* failed call left.                                                        *)
MaxReadLen == 9
ReaderBytes(n) == [p \in 1..n |-> <<3, 200, 0, 1, 255, 255, 255, 255, 130>>[((p - 1) % 9) + 1]]
\* Every Uint8Array the program decodes spans its whole ArrayBuffer
ReaderViews == {[data |-> ReaderBytes(n), after |-> <<>>] : n \in 0..MaxReadLen}
Counts == {0, 1, 3}

ReaderInit ==
    /\ IdlePatch /\ IdleParser /\ state = initialState
    /\ \E v \in ReaderViews :
          reader = [op |-> "new", start |-> 0, need |-> 0, r |-> NewReader(v.data, v.after)]

Call(name, need, result) ==
    reader' = [op |-> name, start |-> reader.r.pos, need |-> need, r |-> result]
\* The reader is the only part that moves
ReaderOnly == UNCHANGED <<patchVars, storeVars, decodeVars>>
Fresh == [reader.r EXCEPT !.err = NoErr]

ReadByte == Call("readByte", 1, readByte(Fresh)) /\ ReaderOnly
ReadBytes == \E count \in Counts : Call("readBytes", count, readBytes(Fresh, count)) /\ ReaderOnly
ReadInt16 == Call("readInt16", 2, readInt16(Fresh)) /\ ReaderOnly
ReadUInt16 == Call("readUInt16", 2, readUInt16(Fresh)) /\ ReaderOnly
ReadInt32 == Call("readInt32", 4, readInt32(Fresh)) /\ ReaderOnly
ReadInt32Tracked == Call("readInt32Tracked", 4, readInt32Tracked(Fresh)) /\ ReaderOnly
ReadUInt32 == Call("readUInt32", 4, readUInt32(Fresh)) /\ ReaderOnly
ReadInt64 == Call("readInt64", 8, readInt64(Fresh)) /\ ReaderOnly
ReadUInt64 == Call("readUInt64", 8, readUInt64(Fresh)) /\ ReaderOnly
ReadFloat == Call("readFloat", 4, readFloat(Fresh)) /\ ReaderOnly
ReadDouble == Call("readDouble", 8, readDouble(Fresh)) /\ ReaderOnly
ReadBoolean == Call("readBoolean", 1, readBoolean(Fresh)) /\ ReaderOnly
Read7BitEncodedInt == Call("read7BitEncodedInt", 1, read7BitEncodedInt(Fresh)) /\ ReaderOnly
ReadString == Call("readString", 1, readString(Fresh)) /\ ReaderOnly
PeekByte == Call("peekByte", 1, peekByte(Fresh)) /\ ReaderOnly
\* skip is explored until the position has left the view
Skip ==
    /\ reader.r.pos <= Len(reader.r.data)
    /\ \E count \in Counts : Call("skip", count, skip(Fresh, count)) /\ ReaderOnly

ReaderNext ==
    \/ ReadByte \/ ReadBytes \/ ReadInt16 \/ ReadUInt16 \/ ReadInt32
    \/ ReadInt32Tracked \/ ReadUInt32 \/ ReadInt64 \/ ReadUInt64 \/ ReadFloat
    \/ ReadDouble \/ ReadBoolean \/ Read7BitEncodedInt \/ ReadString
    \/ PeekByte \/ Skip

SpecReader == ReaderInit /\ [][ReaderNext]_vars

----------------------------------------------------------------------------
(* Inputs and specification of the decode model: parseNrbf, then            *)
(* recordsToSaveData, on a save payload, on its truncations and on copies   *)
(* with one byte overwritten.                                               *)

RECURSIVE Concat(_)
Concat(seqs) == IF seqs = <<>> THEN <<>> ELSE Head(seqs) \o Concat(Tail(seqs))
\* A length-prefixed string shorter than 128 bytes, and a class header
LPS(bytes) == <<Len(bytes)>> \o bytes
I32(v) == EncodeInt32LE(v)
ClassInfoBytes(id, name, names) ==
    I32(id) \o LPS(name) \o I32(Len(names))
    \o Concat([i \in 1..Len(names) |-> LPS(names[i])])
ClassTypeBytes(name) == LPS(name) \o I32(2)

StreamHeaderBytes == <<RT_SerializedStreamHeader>> \o I32(1) \o I32(-1) \o I32(1) \o I32(0)
LibraryBytes == <<RT_BinaryLibrary>> \o I32(2) \o LPS(<<76>>)

\* A stat 'S4' declared with its schema, and one reusing the schema of `of`
StatBytes(id, b, e) ==
    <<RT_ClassWithMembersAndTypes>> \o ClassInfoBytes(id, <<83, 52>>, <<S4_V, S4_MV>>)
    \o <<BT_Primitive, BT_Primitive>> \o <<PT_Int32, PT_Int32>> \o I32(2)
    \o I32(b) \o I32(e)
StatAgainBytes(id, of, b, e) == <<RT_ClassWithId>> \o I32(id) \o I32(of) \o I32(b) \o I32(e)

\* The skill container 'S3' (id 4) with two skills, a top-level record
SkillsBytes(b1, e1, b2, e2) ==
    <<RT_ClassWithMembersAndTypes>>
    \o ClassInfoBytes(4, <<83, 51>>, <<S3_S_Count, S3_S_ \o Decimal(0), S3_S_ \o Decimal(1)>>)
    \o <<BT_Primitive, BT_Class, BT_Class>>
    \o <<PT_Int32>> \o ClassTypeBytes(<<83, 52>>) \o ClassTypeBytes(<<83, 52>>)
    \o I32(2)
    \o I32(2) \o StatBytes(5, b1, e1) \o StatAgainBytes(6, 5, b2, e2)

\* The root 'TG' (id 1) holding the player 'P2' (id 3) inline; the player
\* refers to the skill container by id
PlayerBytes ==
    <<RT_ClassWithMembersAndTypes>> \o ClassInfoBytes(3, <<80, 50>>, <<C1_S>>)
    \o <<BT_Class>> \o ClassTypeBytes(<<83, 51>>) \o I32(2)
    \o <<RT_MemberReference>> \o I32(4)
RootBytes ==
    <<RT_ClassWithMembersAndTypes>> \o ClassInfoBytes(1, TG, <<TG_PC>>)
    \o <<BT_Class>> \o ClassTypeBytes(<<80, 50>>) \o I32(2)
    \o PlayerBytes

SaveBytes(b1, e1, b2, e2) ==
    StreamHeaderBytes \o LibraryBytes \o RootBytes \o SkillsBytes(b1, e1, b2, e2)
    \o <<RT_MessageEnd>>

\* Streams that declare a type outside the enumerations and hold no value
\* of it: a member of binary type 99, and an empty array of primitive 99
UndeclaredBinaryType ==
    StreamHeaderBytes
    \o <<RT_ClassWithMembersAndTypes>> \o ClassInfoBytes(1, TG, <<TG_PC>>) \o <<99>> \o I32(2)
    \o <<RT_MessageEnd>>
UndeclaredPrimitiveType ==
    StreamHeaderBytes \o <<RT_ArraySinglePrimitive>> \o I32(1) \o I32(0) \o <<99>>
    \o <<RT_MessageEnd>>

\* A string record with its own id
StringBytes(id, bytes) == <<RT_BinaryObjectString>> \o I32(id) \o LPS(bytes)

\* A class 'X' (id 2) written without member types, its member 'a' a string
\* (id 5), and a second instance (id 3) that reuses the schema of the first
WithoutTypesBytes ==
    StreamHeaderBytes
    \o <<RT_ClassWithMembers>> \o ClassInfoBytes(2, <<88>>, << <<97>> >>) \o I32(2)
    \o StringBytes(5, <<104>>)
    \o <<RT_ClassWithId>> \o I32(3) \o I32(2) \o StringBytes(6, <<105>>)
    \o <<RT_MessageEnd>>

\* A class 'X' (id 2) whose members 'a' and 'b' are both covered by one
\* run-length null, followed by an array (id 3) of two elements covered by
\* another, and by a string (id 4)
NullRunBytes ==
    StreamHeaderBytes
    \o <<RT_SystemClassWithMembersAndTypes>>
    \o ClassInfoBytes(2, <<88>>, << <<97>>, <<98>> >>) \o <<BT_Object, BT_Object>>
    \o <<RT_ObjectNullMultiple256, 2>>
    \o <<RT_ArraySingleObject>> \o I32(3) \o I32(2) \o <<RT_ObjectNullMultiple>> \o I32(2)
    \o StringBytes(4, <<104>>)
    \o <<RT_MessageEnd>>

\* A class 'X' (id 2) whose member 'a' is a string (id 5) and whose member
\* 'b' refers to it, a string record (id 6), and a class 'Y' (id 3) whose
\* member 'a' refers to the latter
StringsBytes ==
    StreamHeaderBytes
    \o <<RT_SystemClassWithMembersAndTypes>>
    \o ClassInfoBytes(2, <<88>>, << <<97>>, <<98>> >>) \o <<BT_String, BT_String>>
    \o StringBytes(5, <<104>>) \o <<RT_MemberReference>> \o I32(5)
    \o StringBytes(6, <<105>>)
    \o <<RT_SystemClassWithMembersAndTypes>>
    \o ClassInfoBytes(3, <<89>>, << <<97>> >>) \o <<BT_String>>
    \o <<RT_MemberReference>> \o I32(6)
    \o <<RT_MessageEnd>>

\* Bytes written over one position: no record tag, primitive type or binary
\* type has the first value; the second is ClassWithId, Boolean, String
Overwrites == {99, 1}
OverwriteAt(bytes, p, v) == [bytes EXCEPT ![p] = v]
DecodeBuffers ==
    LET save == SaveBytes(20, 30, 20, 10) IN
    {save, UndeclaredBinaryType, UndeclaredPrimitiveType,
     WithoutTypesBytes, NullRunBytes, StringsBytes}
    \cup {SubSeq(save, 1, n) : n \in 0..Len(save)}
    \cup {OverwriteAt(save, p, v) : p \in 1..Len(save), v \in Overwrites}

DecodeInit ==
    /\ IdlePatch /\ IdleReader /\ state = initialState
    /\ \E data \in DecodeBuffers : parser = [phase |-> "file", data |-> data]

\* const records = parseNrbf(uncompressed)
ParseNrbf ==
    /\ parser.phase = "file"
    /\ parser' = [phase |-> "parsed", data |-> parser.data, out |-> parseNrbf(parser.data)]
    /\ UNCHANGED <<patchVars, storeVars, readerVars>>

\* const saveData = recordsToSaveData(records)
RecordsToSaveData ==
    /\ parser.phase = "parsed"
    /\ parser.out.err = NoErr
    /\ parser' = [phase |-> "projected", data |-> parser.data, out |-> parser.out,
                  sheet |-> recordsToSaveData(parser.out.records)]
    /\ UNCHANGED <<patchVars, storeVars, readerVars>>

DecodeNext == ParseNrbf \/ RecordsToSaveData

SpecDecode == DecodeInit /\ [][DecodeNext]_vars

----------------------------------------------------------------------------
(* Inputs and specification of the character sheet model: parseNrbf, then   *)
(* recordsToSaveData, on saves whose player holds `count` skills and three  *)
(* attributes, with the member at index `hole` of each container null       *)
(* (no member is null when hole = -1).                                      *)

SkillCounts == {3, 23, 24}
AttributeCount == 3
FirstStat(hole) == IF hole = 0 THEN 1 ELSE 0

\* The value of member `${prefix}${i}`: null, the stat that declares the
\* schema 'S4', or a stat that reuses it
StatMemberBytes(id, i, hole, declares) ==
    IF i = hole THEN <<RT_ObjectNull>>
    ELSE IF declares THEN StatBytes(id + i, 20 + i, 30 + i)
    ELSE StatAgainBytes(id + i, 100 + FirstStat(hole), 20 + i, 30 + i)

\* A container (top-level record) of `count` stats and their Count
ContainerBytes(id, name, countName, prefix, count, members) ==
    <<RT_ClassWithMembersAndTypes>>
    \o ClassInfoBytes(id, name, <<countName>> \o [i \in 1..count |-> prefix \o Decimal(i - 1)])
    \o <<BT_Primitive>> \o [i \in 1..count |-> BT_Class]
    \o <<PT_Int32>> \o Concat([i \in 1..count |-> ClassTypeBytes(<<83, 52>>)])
    \o I32(2)
    \o I32(count) \o Concat(members)

SheetSkillsBytes(count, hole) ==
    ContainerBytes(4, <<83, 51>>, S3_S_Count, S3_S_, count,
        [i \in 1..count |-> StatMemberBytes(100, i - 1, hole, i - 1 = FirstStat(hole))])
SheetAttributesBytes(hole) ==
    ContainerBytes(7, <<66, 65, 51>>, BA3_BA_Count, BA3_BA_, AttributeCount,
        [i \in 1..AttributeCount |-> StatMemberBytes(200, i - 1, hole, FALSE)])

\* The root 'TG' (id 1) holding the player 'P2' (id 3) inline; the player
\* refers to both containers by id
SheetRootBytes ==
    <<RT_ClassWithMembersAndTypes>> \o ClassInfoBytes(1, TG, <<TG_PC>>)
    \o <<BT_Class>> \o ClassTypeBytes(<<80, 50>>) \o I32(2)
    \o <<RT_ClassWithMembersAndTypes>> \o ClassInfoBytes(3, <<80, 50>>, <<C1_S, C1_BA>>)
    \o <<BT_Class, BT_Class>>
    \o ClassTypeBytes(<<83, 51>>) \o ClassTypeBytes(<<66, 65, 51>>) \o I32(2)
    \o <<RT_MemberReference>> \o I32(4) \o <<RT_MemberReference>> \o I32(7)

SheetBytes(count, hole) ==
    StreamHeaderBytes \o LibraryBytes \o SheetRootBytes
    \o SheetSkillsBytes(count, hole) \o SheetAttributesBytes(hole)
    \o <<RT_MessageEnd>>

SheetInit ==
    /\ IdlePatch /\ IdleReader /\ state = initialState
    /\ \E count \in SkillCounts : \E hole \in -1..(count - 1) :
           parser = [phase |-> "file", data |-> SheetBytes(count, hole)]

SpecSheet == SheetInit /\ [][DecodeNext]_vars

----------------------------------------------------------------------------
(* Inputs and specification of repeated decoding: parseNrbf is called on    *)
(* one buffer after another, in any order. `calls` lists the buffers of     *)
(* the calls made, `results` what each call returned, `prev` the parser     *)
(* object the last call left behind (none before the first call).           *)

MaxCalls == 3

\* An instance (id 3) of a schema (id 2) that the stream does not declare
ReuseOnlyBytes ==
    StreamHeaderBytes \o <<RT_ClassWithId>> \o I32(3) \o I32(2)
    \o StringBytes(6, <<105>>) \o <<RT_MessageEnd>>
CallBuffers ==
    <<SaveBytes(20, 30, 20, 10), WithoutTypesBytes, ReuseOnlyBytes, StringsBytes,
      NullRunBytes>>

\* What a call of parseNrbf gives its caller: the records or the error
Returns(out) ==
    [err |-> out.err, records |-> IF out.err = NoErr THEN out.records ELSE <<>>]

CallsInit ==
    /\ IdlePatch /\ IdleReader /\ state = initialState
    /\ parser = [phase |-> "calls", calls |-> <<>>, results |-> <<>>]

\* parseNrbf(data)
ParseNrbfCall ==
    /\ parser.phase = "calls"
    /\ Len(parser.calls) < MaxCalls
    /\ \E b \in 1..Len(CallBuffers) :
          \E out \in {parseNrbf(CallBuffers[b])} :
              parser' = [phase |-> "calls", calls |-> Append(parser.calls, b),
                        results |-> Append(parser.results, Returns(out)),
                        prev |-> out]
    /\ UNCHANGED <<patchVars, storeVars, readerVars>>

CallsNext == ParseNrbfCall

SpecCalls == CallsInit /\ [][CallsNext]_vars

----------------------------------------------------------------------------
(* Inputs and specification of the framing: a raw payload is compressed     *)
(* under a 24-byte header, and the packed file, or the payload itself as    *)
(* an unpacked file, is decompressed and its header extracted.              *)

MaxPayloadLen == 3

\* Byte strings over the magic bytes and zero
RECURSIVE Strings(_)
Strings(n) ==
    IF n = 0 THEN {<<>>}
    ELSE Strings(n - 1) \cup {Append(w, b) : w \in Strings(n - 1), b \in {0, 31, 139}}
Headers ==
    {[i \in 1..HEADER_SIZE |-> 0], [i \in 1..HEADER_SIZE |-> i],
     [i \in 1..HEADER_SIZE |-> IF i % 2 = 1 THEN 31 ELSE 139]}
\* Payloads shorter than a header, and payloads of the length of a file
Payloads ==
    Strings(MaxPayloadLen) \cup {h \o w : h \in Headers, w \in Strings(MaxPayloadLen)}

FramingInit ==
    /\ IdlePatch /\ IdleReader /\ state = initialState
    /\ \E data \in Payloads, header \in Headers :
          parser = [phase |-> "payload", data |-> data, header |-> header]

\* compress(state.rawData, state.header)
Compress ==
    /\ parser.phase = "payload"
    /\ parser' = [phase |-> "packed", data |-> parser.data, header |-> parser.header,
                  file |-> compress(parser.data, parser.header)]
    /\ UNCHANGED <<patchVars, storeVars, readerVars>>

\* The file at hand: the packed one, or the payload opened as a file
File == IF parser.phase = "packed" THEN parser.file ELSE parser.data

\* decompress(data)
Decompress ==
    /\ parser.phase \in {"payload", "packed"}
    /\ parser' = [phase |-> "decompressed", from |-> parser.phase, data |-> parser.data,
                  header |-> parser.header, file |-> File, out |-> decompress(File)]
    /\ UNCHANGED <<patchVars, storeVars, readerVars>>

\* extractHeader(data)
ExtractHeader ==
    /\ parser.phase \in {"payload", "packed"}
    /\ parser' = [phase |-> "header", from |-> parser.phase, data |-> parser.data,
                  header |-> parser.header, file |-> File, out |-> extractHeader(File)]
    /\ UNCHANGED <<patchVars, storeVars, readerVars>>

FramingNext == Compress \/ Decompress \/ ExtractHeader

SpecFraming == FramingInit /\ [][FramingNext]_vars

----------------------------------------------------------------------------
(* Inputs and specification of the edit round trip: a save is loaded,       *)
(* skills are edited in the store, the edited values are patched into the   *)
(* loaded bytes at the offsets the decode recorded, and the result is       *)
(* decoded again.                                                           *)

\* base and effective of the two skills of the save (a bonus, a penalty,
\* none)
SaveStats == {<<20, 30, 20, 10>>, <<0, 0, 5, 7>>}
SaveFiles == {SaveBytes(v[1], v[2], v[3], v[4]) : v \in SaveStats}

RoundTripInit ==
    /\ IdlePatch /\ IdleReader /\ state = initialState
    /\ \E data \in SaveFiles : parser = [phase |-> "file", data |-> data]

\* handleFile: startLoading, parse, then fileLoaded or loadError
HandleFile ==
    /\ parser.phase = "file"
    /\ ~isPacked(parser.data)
    /\ \E r \in {parseRawData(parser.data)} :
       /\ state' = IF r.err = NoErr
                   THEN fileLoaded(startLoading(state), "global.dat", Get(r.saveData),
                                   r.header, r.rawData)
                   ELSE loadError(startLoading(state), r.err)
       /\ parser' = [phase |-> "loaded", data |-> parser.data, loaded |-> r.saveData]
    /\ UNCHANGED <<patchVars, readerVars>>

EditSkill ==
    /\ parser.phase = "loaded"
    /\ \E index \in EditIndices, newBase \in NewBases :
          state' = updateSkillValue(state, index, newBase)
    /\ UNCHANGED <<patchVars, parser, readerVars>>

\* The request that carries base and effective of every skill of the sheet
SheetChanges(skills) ==
    [i \in 1..Len(skills) |->
        [index |-> skills[i].index, base |-> Some(skills[i].base),
         effective |-> Some(skills[i].effective)]]

\* patchSkills(rawData, saveData.skills, changes) on the loaded payload
PatchEdited ==
    /\ parser.phase = "loaded"
    /\ IsDefined(state.saveData)
    /\ \E r \in {patchSkills((1 :> Get(state.rawData)), 1, Get(state.saveData).skills,
                            SheetChanges(Get(state.saveData).skills))} :
          /\ heap' = r.heap
          /\ rawData' = 1
          /\ entities' = Get(state.saveData).skills
          /\ changes' = SheetChanges(Get(state.saveData).skills)
          /\ patched' = [fn |-> "patchSkills", status |-> r.status, ref |-> r.ref]
          /\ pc' = "done"
    /\ parser' = [parser EXCEPT !.phase = "patched"]
    /\ UNCHANGED <<state, readerVars>>

\* parseRawData on the patched payload
Redecode ==
    /\ parser.phase = "patched"
    /\ patched.status = "returned"
    /\ parser' = [phase |-> "redecoded", data |-> parser.data, loaded |-> parser.loaded,
                  again |-> parseRawData(heap[patched.ref])]
    /\ UNCHANGED <<patchVars, state, readerVars>>

RoundTripNext == HandleFile \/ EditSkill \/ PatchEdited \/ Redecode

SpecRoundTrip == RoundTripInit /\ [][RoundTripNext]_vars

----------------------------------------------------------------------------
(* Inputs and specification of the steps of the decode loop: a buffer is    *)
(* decoded as a stream, as the value of a member whose type is declared in  *)
(* front of it, or as an element of an array.                               *)

\* An array (id 3) of two elements: an instance (id 4) of a class 'X' whose
\* member 'a' is an array (id 5) of one null, and an instance (id 6) of the
\* schema of the first whose member is null
DeepBytes ==
    <<RT_ArraySingleObject>> \o I32(3) \o I32(2)
    \o <<RT_SystemClassWithMembersAndTypes>> \o ClassInfoBytes(4, <<88>>, << <<97>> >>)
    \o <<BT_Object>>
    \o <<RT_ArraySingleObject>> \o I32(5) \o I32(1) \o <<RT_ObjectNull>>
    \o <<RT_ClassWithId>> \o I32(6) \o I32(4) \o <<RT_ObjectNull>>
\* An instance (id 2) of a class 'X' whose member 'a' is an instance (id 3)
\* of the schema of id 2, the instance around it
SelfNestedBytes ==
    <<RT_SystemClassWithMembersAndTypes>> \o ClassInfoBytes(2, <<88>>, << <<97>> >>)
    \o <<BT_Object>>
    \o <<RT_ClassWithId>> \o I32(3) \o I32(2) \o <<RT_ObjectNull>>
\* An instance (id 3) of the schema of id 2, which the stream defines after it
ForwardBytes ==
    <<RT_ClassWithId>> \o I32(3) \o I32(2) \o <<RT_ObjectNull>>
    \o <<RT_SystemClassWithMembersAndTypes>> \o ClassInfoBytes(2, <<88>>, << <<97>> >>)
    \o <<BT_Object>> \o <<RT_ObjectNull>>
Stream(records) == StreamHeaderBytes \o records \o <<RT_MessageEnd>>

\* Values of members and elements, and streams with and without an
\* end-of-stream tag (the second with bytes behind it)
NestedBuffers ==
    {DeepBytes, SelfNestedBytes, ForwardBytes,
     Stream(DeepBytes), Stream(SelfNestedBytes), Stream(ForwardBytes)} \cup
    {<<>>, <<RT_ObjectNull>>, <<RT_MemberReference>> \o I32(2), StringBytes(5, <<104>>),
     <<RT_MessageEnd>>, <<RT_ObjectNullMultiple256, 2>>, I32(7), <<99>>,
     <<RT_ArraySingleObject>> \o I32(3) \o I32(0),
     StreamHeaderBytes \o <<RT_ArraySingleObject>> \o I32(3) \o I32(0),
     StreamHeaderBytes \o <<RT_ArraySingleObject>> \o I32(3) \o I32(0)
         \o <<RT_MessageEnd, 99>>}
\* Type declarations of one member: the binary type and what follows it
MemberDeclarations ==
    {<<BT_Primitive, PT_Int32>>, <<BT_Primitive, PT_Byte>>, <<BT_Primitive, PT_String>>,
     <<BT_Primitive, PT_Null>>, <<BT_String>>, <<BT_Object>>,
     <<BT_SystemClass>> \o LPS(<<88>>), <<BT_Class>> \o LPS(<<88>>) \o I32(2),
     <<BT_ObjectArray>>, <<BT_StringArray>>, <<BT_PrimitiveArray, PT_Int32>>,
     <<8>>, <<99>>}

NestedInit ==
    /\ IdlePatch /\ IdleReader /\ state = initialState
    /\ \E data \in NestedBuffers : parser = [phase |-> "file", data |-> data]

\* readMemberValue(typeInfo) with the type info readMemberTypeInfo read;
\* `start` is the position of the first byte of the value
ReadMemberValue ==
    /\ parser.phase = "file"
    /\ \E declaration \in MemberDeclarations :
       \E typed \in {readMemberTypeInfo(NewParser(declaration \o parser.data), 1)} :
          /\ typed.err = NoErr
          /\ parser' = [phase |-> "member", data |-> parser.data,
                        typeInfo |-> typed.val[1], start |-> typed.pos,
                        out |-> readMemberValue(typed, typed.val[1], FALSE)]
    /\ UNCHANGED <<patchVars, state, readerVars>>

\* readInlineValue() for an element of an array
ReadInlineValue ==
    /\ parser.phase = "file"
    /\ parser' = [phase |-> "element", data |-> parser.data, start |-> 0,
                  out |-> readInlineValue(NewParser(parser.data))]
    /\ UNCHANGED <<patchVars, state, readerVars>>

NestedNext == ParseNrbf \/ ReadMemberValue \/ ReadInlineValue

SpecNested == NestedInit /\ [][NestedNext]_vars

----------------------------------------------------------------------------
(* Inputs and specification of the decoding of one primitive: readPrimitive *)
(* is called on a parser at the start of eight bytes.                       *)

IntegerTypes == {PT_Byte, PT_SByte, PT_Int16, PT_UInt16, PT_Int32, PT_UInt32,
                 PT_Int64, PT_UInt64}
PrimitiveBytes ==
    {<<b, c, c, b, 0, c, 255, b>> : b \in {0, 5, 127, 128, 255}, c \in {0, 1, 128, 255}}

PrimitiveInit ==
    /\ IdlePatch /\ IdleReader /\ state = initialState
    /\ \E data \in PrimitiveBytes : parser = [phase |-> "bytes", data |-> data]

ReadPrimitive ==
    /\ parser.phase = "bytes"
    /\ \E primitiveType \in IntegerTypes :
          parser' = [phase |-> "primitive", data |-> parser.data,
                     primitiveType |-> primitiveType,
                     out |-> readPrimitive(NewParser(parser.data), primitiveType, FALSE)]
    /\ UNCHANGED <<patchVars, state, readerVars>>

SpecPrimitive == PrimitiveInit /\ [][ReadPrimitive]_vars

----------------------------------------------------------------------------
(* Inputs and specification of overlapping loads. handleFile runs up to its *)
(* await, the file is read while other handlers run, and the rest of        *)
(* handleFile runs when the read is done. `inflight` holds, per invocation, *)
(* the file being read; `finished` is the invocation that completed last.   *)

Handlers == {1, 2}
PickedFiles ==
    [global |-> SheetBytes(AttributeCount, -1),
     other |-> compress(SaveBytes(20, 30, 20, 10), [i \in 1..HEADER_SIZE |-> i]),
     broken |-> [i \in 1..HEADER_SIZE |-> i] \o GZIP_MAGIC \o <<GZIP_DEFLATE>>]
FileNames == DOMAIN PickedFiles

OverlapInit ==
    /\ IdlePatch /\ IdleReader /\ state = initialState
    /\ parser = [phase |-> "overlap", inflight |-> [k \in Handlers |-> Undefined],
                 finished |-> Undefined]

\* handleFile up to `await parseSaveFile(file)`
HandleFileStart ==
    /\ \E k \in Handlers, name \in FileNames :
          /\ parser.inflight[k] = Undefined
          /\ parser' = [parser EXCEPT !.inflight[k] = Some(name)]
    /\ state' = startLoading(state)
    /\ UNCHANGED <<patchVars, readerVars>>

\* handleFile after the await: fileLoaded, or loadError in the catch block
HandleFileFinish ==
    /\ \E k \in Handlers :
          /\ IsDefined(parser.inflight[k])
          /\ \E name \in {Get(parser.inflight[k])} :
             \E r \in {parseSaveFile(PickedFiles[name])} :
                /\ state' = IF r.err = NoErr
                            THEN fileLoaded(state, name, Get(r.saveData), r.header, r.rawData)
                            ELSE loadError(state, r.err)
                /\ parser' = [parser EXCEPT
                                 !.inflight[k] = Undefined,
                                 !.finished = Some([name |-> name, ok |-> r.err = NoErr])]
    /\ UNCHANGED <<patchVars, readerVars>>

OverlapNext == HandleFileStart \/ HandleFileFinish

SpecOverlap == OverlapInit /\ [][OverlapNext]_vars

----------------------------------------------------------------------------
(* Inputs and specification of the store with its subscribers. `last` is    *)
(* the call made last (for an update, with its index), `calls` the          *)
(* invocations of callbacks that call made, `handles` the callbacks for     *)
(* which subscribe returned an unsubscribe function.                        *)

Callbacks == {"render", "log"}
WatchedTabs == {"stats", "feats"}
WatchedIndices == {0, 1}
WatchedBases == {0, 5}

SubscribersInit ==
    /\ IdlePatch /\ IdleReader /\ state = initialState
    /\ parser = [phase |-> "store", subscribers |-> <<>>, handles |-> {},
                 calls |-> <<>>,
                 last |-> [op |-> "none", index |-> -1, callback |-> "none"]]

\* What a call of setState or resetState leaves behind: the store has been
\* replaced by `next`, then the subscribers were notified
Notified(op, index, next) ==
    [parser EXCEPT !.calls = notifySubscribers(next, parser.subscribers),
                   !.last = [op |-> op, index |-> index, callback |-> "none"]]
\* What a call that returned before setState leaves behind
ReturnedEarly(op, index) ==
    [parser EXCEPT !.calls = <<>>, !.last = [op |-> op, index |-> index, callback |-> "none"]]

StartLoadingCall ==
    /\ state' = startLoading(state)
    /\ parser' = Notified("startLoading", -1, state')
    /\ UNCHANGED <<patchVars, readerVars>>
FileLoadedCall ==
    /\ \E f \in StoreFiles :
          state' = fileLoaded(state, f.fileName, f.saveData, f.header, f.rawData)
    /\ parser' = Notified("fileLoaded", -1, state')
    /\ UNCHANGED <<patchVars, readerVars>>
LoadErrorCall ==
    /\ \E e \in LoadErrors : state' = loadError(state, e)
    /\ parser' = Notified("loadError", -1, state')
    /\ UNCHANGED <<patchVars, readerVars>>
ToggleEditModeCall ==
    /\ \E enabled \in BOOLEAN : state' = toggleEditMode(state, enabled)
    /\ parser' = Notified("toggleEditMode", -1, state')
    /\ UNCHANGED <<patchVars, readerVars>>
SwitchTabCall ==
    /\ \E tab \in WatchedTabs : state' = switchTab(state, tab)
    /\ parser' = Notified("switchTab", -1, state')
    /\ UNCHANGED <<patchVars, readerVars>>
UpdateSkillValueCall ==
    /\ \E index \in WatchedIndices, newBase \in WatchedBases :
          /\ state' = updateSkillValue(state, index, newBase)
          /\ parser' = IF updateSkillValue_returns(state, index)
                       THEN ReturnedEarly("updateSkillValue", index)
                       ELSE Notified("updateSkillValue", index, state')
    /\ UNCHANGED <<patchVars, readerVars>>
UpdateAttributeValueCall ==
    /\ \E index \in WatchedIndices, newBase \in WatchedBases :
          /\ state' = updateAttributeValue(state, index, newBase)
          /\ parser' = IF updateAttributeValue_returns(state, index)
                       THEN ReturnedEarly("updateAttributeValue", index)
                       ELSE Notified("updateAttributeValue", index, state')
    /\ UNCHANGED <<patchVars, readerVars>>
ResetStateCall ==
    /\ state' = resetState(state)
    /\ parser' = Notified("resetState", -1, state')
    /\ UNCHANGED <<patchVars, readerVars>>

Subscribe ==
    /\ \E callback \in Callbacks :
          parser' = [parser EXCEPT
                        !.subscribers = subscribe(parser.subscribers, callback),
                        !.handles = parser.handles \cup {callback},
                        !.calls = <<>>,
                        !.last = [op |-> "subscribe", index |-> -1,
                                  callback |-> callback]]
    /\ UNCHANGED <<patchVars, state, readerVars>>
\* One of the functions subscribe returned is called
Unsubscribe ==
    /\ \E callback \in parser.handles :
          parser' = [parser EXCEPT
                        !.subscribers = unsubscribe(parser.subscribers, callback),
                        !.calls = <<>>,
                        !.last = [op |-> "unsubscribe", index |-> -1,
                                  callback |-> callback]]
    /\ UNCHANGED <<patchVars, state, readerVars>>

SubscribersNext ==
    \/ StartLoadingCall \/ FileLoadedCall \/ LoadErrorCall \/ ToggleEditModeCall
    \/ SwitchTabCall \/ UpdateSkillValueCall \/ UpdateAttributeValueCall
    \/ ResetStateCall \/ Subscribe \/ Unsubscribe

SpecSubscribers == SubscribersInit /\ [][SubscribersNext]_vars

----------------------------------------------------------------------------
(* Inputs and specification of a session of the editor: files are opened,   *)
(* skills and attributes are edited, and the save is downloaded. `payload`  *)
(* and `header` are what the last successful parse resolved to, and         *)
(* `downloaded` the bytes the last download handed to the browser.          *)

\* A plain save, two packed saves, and a packed file whose payload is cut
SessionFiles ==
    {SheetBytes(AttributeCount, -1),
     compress(SheetBytes(AttributeCount, -1), [i \in 1..HEADER_SIZE |-> i]),
     compress(SaveBytes(20, 30, 20, 10), [i \in 1..HEADER_SIZE |-> 0]),
     [i \in 1..HEADER_SIZE |-> i] \o GZIP_MAGIC \o <<GZIP_DEFLATE>>}
SessionIndices == {0, AttributeCount - 1, AttributeCount + 2}
SessionBases == {0, 100}

SessionInit ==
    /\ IdlePatch /\ IdleReader /\ state = initialState
    /\ parser = [phase |-> "session", payload |-> Undefined, header |-> Undefined,
                 downloaded |-> Undefined]

\* handleFile on a file the user picked or dropped
OpenFile ==
    \E data \in SessionFiles : \E r \in {parseSaveFile(data)} :
        /\ state' = IF r.err = NoErr
                    THEN fileLoaded(startLoading(state), "global.dat", Get(r.saveData),
                                    r.header, r.rawData)
                    ELSE loadError(startLoading(state), r.err)
        /\ parser' = IF r.err = NoErr
                     THEN [phase |-> "session", payload |-> Some(r.rawData),
                           header |-> Some(r.header), downloaded |-> Undefined]
                     ELSE parser
        /\ UNCHANGED <<patchVars, readerVars>>

EditSkillValue ==
    /\ \E index \in SessionIndices, newBase \in SessionBases :
          state' = updateSkillValue(state, index, newBase)
    /\ UNCHANGED <<patchVars, parser, readerVars>>

EditAttributeValue ==
    /\ \E index \in SessionIndices, newBase \in SessionBases :
          state' = updateAttributeValue(state, index, newBase)
    /\ UNCHANGED <<patchVars, parser, readerVars>>

\* A variant that applies the edited skills to the payload before packing it
handleDownloadPatched(st) ==
    IF ~IsDefined(st.saveData) \/ ~IsDefined(st.header) \/ ~IsDefined(st.rawData)
    THEN Undefined
    ELSE LET p == patchSkills((1 :> Get(st.rawData)), 1, Get(st.saveData).skills,
                             SheetChanges(Get(st.saveData).skills))
         IN Some(compress(p.heap[p.ref], Get(st.header)))
\* handleDownload: nothing without a loaded save, else the bytes of the blob
handleDownload(st) ==
    IF ~IsDefined(st.saveData) \/ ~IsDefined(st.header) \/ ~IsDefined(st.rawData)
    THEN Undefined
    ELSE Some(compress(Get(st.rawData), Get(st.header)))

HandleDownload ==
    /\ IsDefined(handleDownload(state))
    /\ parser' = [parser EXCEPT !.downloaded = handleDownload(state)]
    /\ UNCHANGED <<patchVars, state, readerVars>>

SessionNext == OpenFile \/ EditSkillValue \/ EditAttributeValue \/ HandleDownload

SpecSession == SessionInit /\ [][SessionNext]_vars

----------------------------------------------------------------------------
(* Properties of the field patcher.                                         *)

Returned == pc = "done" /\ patched.status = "returned"
Input == heap[rawData]
Result == heap[patched.ref]

\* 1-based byte positions entry k of the request writes
Range4(o) == (o + 1)..(o + 4)
BaseApplies(k) ==
    /\ HasEntity(entities, changes[k].index)
    /\ IsDefined(changes[k].base)
    /\ IsDefined(entities[changes[k].index + 1].baseOffset)
EffectiveApplies(k) ==
    /\ HasEntity(entities, changes[k].index)
    /\ IsDefined(changes[k].effective)
    /\ IsDefined(entities[changes[k].index + 1].effectiveOffset)
WrittenBy(k) ==
    (IF BaseApplies(k) THEN Range4(Get(entities[changes[k].index + 1].baseOffset)) ELSE {})
    \cup (IF EffectiveApplies(k)
          THEN Range4(Get(entities[changes[k].index + 1].effectiveOffset)) ELSE {})
Written == UNION {WrittenBy(k) : k \in 1..Len(changes)}
WrittenByOthers(k) == UNION {WrittenBy(j) : j \in (1..Len(changes)) \ {k}}

\* C1: a returned buffer has the input's length and equals the input at
\* every byte outside the 4-byte ranges of the requested fields that have an
\* offset; a request {base: v} for an entity puts the little-endian int32
\* encoding of v at its baseOffset and leaves the 4 bytes at its
\* effectiveOffset as they were.
C1_PatchFrame ==
    Returned =>
        /\ Len(Result) = Len(Input)
        /\ \A p \in 1..Len(Input) : p \notin Written => Result[p] = Input[p]
        /\ \A k \in 1..Len(changes) :
              BaseApplies(k) /\ ~IsDefined(changes[k].effective) =>
                  LET e == entities[changes[k].index + 1]
                      o == Get(e.baseOffset)
                  IN /\ Range4(o) \cap WrittenByOthers(k) = {}
                          => getInt32(Result, o) = Get(changes[k].base)
                     /\ (IsDefined(e.effectiveOffset)
                         /\ Get(e.effectiveOffset) + 4 <= Len(Input)
                         /\ Range4(Get(e.effectiveOffset)) \cap WrittenByOthers(k) = {})
                          => SubSeq(Result, Get(e.effectiveOffset) + 1, Get(e.effectiveOffset) + 4)
                               = SubSeq(Input, Get(e.effectiveOffset) + 1, Get(e.effectiveOffset) + 4)

\* a {base: v} request written into an entity that has both offsets
C1_Witness ==
    /\ Returned
    /\ Result # Input
    /\ \E k \in 1..Len(changes) :
          /\ BaseApplies(k) /\ ~IsDefined(changes[k].effective)
          /\ IsDefined(entities[changes[k].index + 1].effectiveOffset)

\* C2: a patch call leaves every byte of the rawData buffer and every field
\* of the entity list as they were, and the buffer it returns is fresh
\* storage, not the input's.
C2_InputNotMutated ==
    [][(pc = "ready" /\ pc' = "done") =>
          /\ rawData' = rawData
          /\ heap'[rawData] = heap[rawData]
          /\ entities' = entities
          /\ patched'.status = "returned" =>
                patched'.ref # rawData /\ patched'.ref \notin DOMAIN heap]_vars

\* a call that wrote two fields
C2_Witness ==
    /\ Returned
    /\ \E k \in 1..Len(changes) : BaseApplies(k) /\ EffectiveApplies(k)
    /\ Result # Input

\* C3: an empty request returns a buffer byte-identical to the input.
C3_EmptyPatchIdentity ==
    (pc = "done" /\ changes = <<>>) =>
        patched.status = "returned" /\ Result = Input

C3_Witness ==
    pc = "done" /\ changes = <<>> /\ Len(entities) > 0 /\ Len(Input) = MaxBufLen

\* The request with every entry and field dropped that the loop skips
ApplicableField(list, c, f) ==
    IF f = "base" THEN IsDefined(c.base) /\ IsDefined(list[c.index + 1].baseOffset)
    ELSE IsDefined(c.effective) /\ IsDefined(list[c.index + 1].effectiveOffset)
RECURSIVE Applicable(_, _, _)
Applicable(list, chg, k) ==
    IF k > Len(chg) THEN <<>>
    ELSE IF ~HasEntity(list, chg[k].index) THEN Applicable(list, chg, k + 1)
    ELSE <<[index |-> chg[k].index,
            base |-> IF ApplicableField(list, chg[k], "base") THEN chg[k].base ELSE Undefined,
            effective |-> IF ApplicableField(list, chg[k], "effective")
                          THEN chg[k].effective ELSE Undefined]>>
         \o Applicable(list, chg, k + 1)
Skipped(k) == ~BaseApplies(k) /\ ~EffectiveApplies(k)

\* The call repeated on the same input with another request or entity list
Again(list, chg) ==
    IF patched.fn = "patchSkills"
    THEN patchSkills((1 :> Input), 1, list, chg)
    ELSE patchAttributes((1 :> Input), 1, list, chg)
SameOutcome(r) ==
    /\ r.status = patched.status
    /\ r.status = "returned" => r.heap[r.ref] = Result

\* C4: an entry whose index has no entity, or whose requested field has no
\* offset in the entity, is skipped without an error and without changing a
\* byte; the remaining entries are applied as if it were not there.
C4_AbsentSkipped ==
    pc = "done" =>
        /\ (\A k \in 1..Len(changes) : Skipped(k))
              => patched.status = "returned" /\ Result = Input
        /\ SameOutcome(Again(entities, Applicable(entities, changes, 1)))

\* one entry skipped for an absent entity, another one written
C4_Witness ==
    /\ Returned
    /\ \E k \in 1..Len(changes) : ~HasEntity(entities, changes[k].index)
    /\ \E k \in 1..Len(changes) :
          /\ IsDefined(changes[k].base) /\ HasEntity(entities, changes[k].index)
          /\ ~IsDefined(entities[changes[k].index + 1].baseOffset)
    /\ \E k \in 1..Len(changes) : EffectiveApplies(k)
    /\ Result # Input

\* The entity list with the offsets of entity i removed
WithoutOffsets(list, i) ==
    [j \in 1..Len(list) |->
        IF j = i THEN [baseOffset |-> Undefined, effectiveOffset |-> Undefined] ELSE list[j]]

\* C5: the value a patch call returns tells a requested index that was
\* written from one that was skipped for lack of an offset: the same call
\* against an entity list in which that entity has no offsets returns
\* something else.
C5_AppliedReported ==
    Returned =>
        \A k \in 1..Len(changes) :
            ~Skipped(k) =>
                ~SameOutcome(Again(WithoutOffsets(entities, changes[k].index + 1), changes))

\* An offset that does not leave 4 bytes inside the input
OutOfRange(o) == o < 0 \/ o > Len(Input) - 4
\* Entry k of the request has a field to write whose offset is out of range
Overruns(k) ==
    \/ BaseApplies(k) /\ OutOfRange(Get(entities[changes[k].index + 1].baseOffset))
    \/ EffectiveApplies(k) /\ OutOfRange(Get(entities[changes[k].index + 1].effectiveOffset))

\* C30: a patch call whose request has a field to write at an offset that
\* leaves fewer than 4 bytes inside the buffer throws and returns no buffer,
\* and no other call throws; whatever the outcome, the input buffer keeps
\* its bytes and no buffer the call leaves behind is longer or shorter than
\* the input
C30_OutOfRangeThrows ==
    [][(pc = "ready" /\ pc' = "done") =>
          /\ (\E k \in 1..Len(changes) : Overruns(k)) <=> patched'.status = "threw"
          /\ patched'.status = "threw" => patched'.ref = 0
          /\ heap'[rawData] = heap[rawData]
          /\ \A id \in DOMAIN heap' : Len(heap'[id]) = Len(heap[rawData])]_vars
\* A call on the 6-byte buffer that wrote the field at offset 1 and threw on
\* the one at offset 5
C30_Witness ==
    /\ pc = "done" /\ patched.status = "threw"
    /\ Len(Input) = 6
    /\ \E k \in 1..Len(changes) : Overruns(k)
    /\ \E id \in DOMAIN heap : heap[id] # Input

----------------------------------------------------------------------------
(* Properties of the store.                                                 *)

Bonus(e) == e.effective - e.base

\* C7: an edit moves effective by the same delta as base, so effective - base
\* of every entity stays what it was when the file was loaded, whatever new
\* base the edit passes. (fileLoaded and resetState clear hasChanges; every
\* other step that leaves a file loaded must keep the differences.)
C7_BonusPreserved ==
    [][(IsDefined(state.saveData) /\ IsDefined(state'.saveData) /\ state'.hasChanges) =>
          /\ \A i \in 1..Len(Get(state.saveData).skills) :
                Bonus(Get(state'.saveData).skills[i]) = Bonus(Get(state.saveData).skills[i])
          /\ \A i \in 1..Len(Get(state.saveData).attributes) :
                Bonus(Get(state'.saveData).attributes[i])
                    = Bonus(Get(state.saveData).attributes[i])]_vars

----------------------------------------------------------------------------
(* Properties of the cursor reader.                                         *)

\* C10: a call whose byte range would pass the end of the decoded buffer
\* throws the out-of-bounds error, a call that returns never took bytes from
\* outside the buffer, and position never exceeds the buffer length.
C10_NoReadPastEnd ==
    /\ reader.r.pos <= Len(reader.r.data)
    /\ reader.start + reader.need > Len(reader.r.data) => reader.r.err = "RangeError"

\* The 7-bit groups of the length prefix that starts at `from`: how many
\* there are, and the number they encode
RECURSIVE Groups(_, _)
Groups(data, from) ==
    IF from + 1 \notin DOMAIN data THEN 1
    ELSE IF data[from + 1] < 128 THEN 1 ELSE 1 + Groups(data, from + 1)
RECURSIVE PrefixValue(_, _)
PrefixValue(data, from) ==
    IF from + 1 \notin DOMAIN data THEN 0
    ELSE IF data[from + 1] < 128 THEN data[from + 1]
    ELSE (data[from + 1] - 128) + 128 * PrefixValue(data, from + 1)
FixedWidth ==
    [readByte |-> 1, readBoolean |-> 1, readInt16 |-> 2, readUInt16 |-> 2,
     readInt32 |-> 4, readInt32Tracked |-> 4, readUInt32 |-> 4, readFloat |-> 4,
     readInt64 |-> 8, readUInt64 |-> 8, readDouble |-> 8]
Consumed ==
    IF reader.op \in DOMAIN FixedWidth THEN FixedWidth[reader.op]
    ELSE IF reader.op = "readBytes" THEN reader.need
    ELSE IF reader.op = "read7BitEncodedInt" THEN Groups(reader.r.data, reader.start)
    ELSE Groups(reader.r.data, reader.start) + PrefixValue(reader.r.data, reader.start)
Succeeded(ops) == reader.op \in ops /\ reader.r.err = NoErr

\* C22: a successful read leaves the position exactly the bytes of its value
\* after where it started, no call moves the position back, and position
\* plus remaining is the length of the buffer
C22_ReadsAdvance ==
    /\ reader.r.pos >= reader.start
    /\ reader.r.pos + Remaining(reader.r) = Len(reader.r.data)
    /\ Succeeded(DOMAIN FixedWidth \cup {"readBytes", "read7BitEncodedInt", "readString"})
           => reader.r.pos = reader.start + Consumed
\* A string of three bytes after its one-byte prefix, and a prefix of two groups
C22_Witness ==
    \/ Succeeded({"readString"}) /\ reader.start = 0 /\ reader.r.pos = 4
    \/ Succeeded({"read7BitEncodedInt"}) /\ reader.r.pos = reader.start + 2

----------------------------------------------------------------------------
(* Properties of the store and its subscribers. In a step of the store      *)
(* `parser'.last` is the call the step made, `state` and                    *)
(* `parser.subscribers` are the store and the subscribers at that moment.   *)

Updates == {"updateSkillValue", "updateAttributeValue"}
Setters == {"startLoading", "fileLoaded", "loadError", "toggleEditMode", "switchTab"}
\* The entities an update looks its index up in
EntitiesOf(op) ==
    IF op = "updateSkillValue" THEN Get(state.saveData).skills
    ELSE Get(state.saveData).attributes
\* The step is an update with no file loaded or with an index with no entity
IdleUpdate(last) ==
    /\ last.op \in Updates
    /\ \/ state.saveData = Null
       \/ last.index < 0
       \/ last.index >= Len(EntitiesOf(last.op))
\* The step is a call of setState or resetState
StoreCall(last) ==
    \/ last.op \in Setters \cup {"resetState"}
    \/ last.op \in Updates /\ ~IdleUpdate(last)
Invocations(calls, callback) ==
    Cardinality({i \in 1..Len(calls) : calls[i].callback = callback})
Subscribed(subscribers, callback) ==
    \E i \in 1..Len(subscribers) : subscribers[i] = callback
Others(subscribers, callback) == SelectSeq(subscribers, LAMBDA c : c # callback)

C26_Step ==
    /\ (state.hasChanges /\ ~state'.hasChanges) =>
           parser'.last.op \in {"fileLoaded", "resetState"}
    /\ IdleUpdate(parser'.last) => (state' = state /\ parser'.calls = <<>>)
\* C26: over the actions of the store, hasChanges is set only while a save is
\* loaded; only fileLoaded and resetState take hasChanges from true back to
\* false; an update with no file loaded, or with an index that has no entity,
\* leaves the store as it was and invokes no subscriber
C26_ChangesNeedSave ==
    /\ [](state.hasChanges => state.saveData # Null)
    /\ [][C26_Step]_vars
\* An update of an entity that does not exist, made while a save with changes
\* is loaded and a callback is subscribed
C26_Witness ==
    /\ parser.phase = "store"
    /\ state.hasChanges
    /\ IdleUpdate(parser.last)
    /\ parser.subscribers # <<>>
    /\ parser.calls = <<>>

C27_Step ==
    /\ StoreCall(parser'.last) =>
           /\ \A callback \in Callbacks :
                  Invocations(parser'.calls, callback) =
                      IF Subscribed(parser.subscribers, callback) THEN 1 ELSE 0
           /\ \A i \in 1..Len(parser'.calls) : parser'.calls[i].state = state'
    /\ parser'.last.op = "subscribe" =>
           /\ Invocations([i \in 1..Len(parser'.subscribers) |->
                               [callback |-> parser'.subscribers[i]]],
                          parser'.last.callback) = 1
           /\ Others(parser'.subscribers, parser'.last.callback) =
                  Others(parser.subscribers, parser'.last.callback)
    /\ parser'.last.op = "unsubscribe" =>
           /\ ~Subscribed(parser'.subscribers, parser'.last.callback)
           /\ Others(parser'.subscribers, parser'.last.callback) =
                  Others(parser.subscribers, parser'.last.callback)
\* C27: every call of setState and of resetState invokes each callback that
\* is subscribed at that moment exactly once and no other callback, each with
\* the state the store holds after the call; subscribing registers the
\* callback once however often it is subscribed, and once its unsubscribe
\* function ran a callback is registered no more, so no later update invokes it
C27_NotifiedOnce == [][C27_Step]_vars
\* resetState notified the one callback left after the other, subscribed
\* earlier, was unsubscribed
C27_Witness ==
    /\ parser.phase = "store"
    /\ parser.last.op = "resetState"
    /\ parser.handles = Callbacks
    /\ Len(parser.subscribers) = 1
    /\ Len(parser.calls) = 1
    /\ parser.calls[1] = [callback |-> parser.subscribers[1], state |-> state]

----------------------------------------------------------------------------
(* Properties of the steps of the decode loop.                              *)

\* The stream with an end-of-stream tag and two more bytes behind it
Ended(data) == data \o <<RT_MessageEnd, 99, 99>>

\* C21: every step of the decode makes progress - the decode of a member
\* value and of an array element ends with an error or at least one byte
\* further; a decode of a stream that returns has stopped right behind the
\* first top-level end-of-stream tag or at the end of the buffer; and a
\* stream that ends on a record boundary gives the records it gives when an
\* end-of-stream tag and more bytes follow it
C21_DecodeProgress ==
    /\ parser.phase \in {"member", "element"} =>
           \/ parser.out.err # NoErr
           \/ parser.out.pos >= parser.start + 1
    /\ (parser.phase = "parsed" /\ parser.out.err = NoErr) =>
           /\ \/ parser.out.pos = Len(parser.data)
              \/ /\ parser.out.pos \in 1..Len(parser.data)
                 /\ parser.data[parser.out.pos] = RT_MessageEnd
           /\ parser.out.pos = Len(parser.data) /\ parser.data # <<>>
              /\ parser.data[Len(parser.data)] # RT_MessageEnd =>
                  \E r \in {parseNrbf(Ended(parser.data))} :
                      /\ r.err = NoErr
                      /\ r.records = parser.out.records
                      /\ r.pos = Len(parser.data) + 1

\* The values a record holds: of its members, or its elements
ValuesOf(record) ==
    IF record.t = "class"
    THEN [i \in 1..Len(record.class.members) |-> record.class.members[i].value]
    ELSE IF record.t = "array" THEN record.elements
    ELSE <<>>
IdOf(record) == IF record.t = "class" THEN record.class.id ELSE record.array_id
\* Handles of records: { class_id: cls }, or the record itself
IsHandle(value) == value.t \in {"class_id", "class", "array"}
Refers(handle, record) ==
    \/ handle = record
    \/ handle.t = "class_id" /\ record.t = "class" /\ handle.class_id = record.class
Handles(record) == {i \in 1..Len(ValuesOf(record)) : IsHandle(ValuesOf(record)[i])}
\* Every handle a record holds refers to a record in front of it, and the
\* last of them to the record right in front of it
PostOrder(records) ==
    \A k \in 1..Len(records) :
        /\ \A i \in Handles(records[k]) :
               \E j \in 1..(k - 1) : Refers(ValuesOf(records[k])[i], records[j])
        /\ Handles(records[k]) # {} =>
               /\ k > 1
               /\ \E i \in Handles(records[k]) :
                      /\ \A h \in Handles(records[k]) : h <= i
                      /\ Refers(ValuesOf(records[k])[i], records[k - 1])
NestedTags ==
    {RT_ClassWithMembersAndTypes, RT_SystemClassWithMembersAndTypes, RT_ClassWithMembers,
     RT_SystemClassWithMembers, RT_ClassWithId, RT_BinaryArray, RT_ArraySinglePrimitive,
     RT_ArraySingleObject, RT_ArraySingleString}
Finished == parser.phase \in {"parsed", "member", "element"} /\ parser.out.err = NoErr

\* C28: the record list is in post-order - a record decoded inline inside the
\* members of a class or the elements of an array stands in the list before
\* the record around it - and when the decode of an element whose tag is one
\* of a class or an array returns, the last record of the list has the id
\* that follows the tag and the value returned is the handle of that record
C28_PostOrder ==
    /\ Finished => PostOrder(parser.out.records)
    /\ (Finished /\ parser.phase = "element" /\ parser.data # <<>>
           /\ parser.data[1] \in NestedTags) =>
           /\ parser.out.records # <<>>
           /\ IdOf(parser.out.records[Len(parser.out.records)]) = getInt32(parser.data, 1)
           /\ Refers(parser.out.val, parser.out.records[Len(parser.out.records)])
\* The array of three levels decoded as an element: four records, the array
\* itself last
C28_Witness ==
    /\ Finished /\ parser.phase = "element"
    /\ parser.data = DeepBytes
    /\ Len(parser.out.records) = 4
    /\ parser.out.val.t = "array"
    /\ parser.out.val.array_id = 3

\* The instances the decode made by reference to a schema
ByReference == {k \in 1..Len(parser.out.log) : parser.out.log[k].e = "ClassWithId"}
\* The records were decoded as a stream, or as an element
DecodeOf(records) ==
    \/ parser.phase = "parsed" /\ parser.data \in {records, Stream(records)}
    \/ parser.phase = "element" /\ parser.data = records
\* C29: an instance that names the id of the instance around it as its schema
\* is decoded, with the name and the member names of that schema, while the
\* instance around it is not yet in the graph; a decode fails on a reference
\* to a schema only when no schema is registered under the id at that point,
\* as for an id the stream defines behind the reference
C29_SchemaBeforeMembers ==
    /\ Finished =>
           \A k \in ByReference :
               LET ev == parser.out.log[k]
                   new == parser.out.records[ev.record].class
               IN /\ new.name = ev.schema.name
                  /\ [i \in 1..Len(new.members) |-> new.members[i].name] =
                         ev.schema.memberNames
    /\ DecodeOf(SelfNestedBytes) =>
           /\ parser.out.err = NoErr
           /\ Len(parser.out.records) = 2
           /\ ByReference # {}
           /\ \A k \in ByReference :
                  /\ parser.out.log[k].metadataId = 2
                  /\ parser.out.log[k].origin = Undefined
                  /\ parser.out.log[k].record = 1
           /\ IdOf(parser.out.records[2]) = 2
           /\ parser.out.records[2].class.name = parser.out.records[1].class.name
    /\ DecodeOf(ForwardBytes) =>
           /\ parser.out.err = "UnknownClass"
           /\ ~MapHas(parser.out.classInfos, 2)
\* The stream with the instance inside the instance of its schema, decoded
C29_Witness ==
    /\ parser.phase = "parsed"
    /\ parser.data = Stream(SelfNestedBytes)
    /\ parser.out.err = NoErr
    /\ Len(parser.out.records) = 2
    /\ ByReference # {}

----------------------------------------------------------------------------
(* Properties of the decoding of one primitive.                             *)

\* Bytes each integer type occupies
PhysicalWidth ==
    (PT_Byte :> 1) @@ (PT_SByte :> 1) @@ (PT_Int16 :> 2) @@ (PT_UInt16 :> 2)
    @@ (PT_Int32 :> 4) @@ (PT_UInt32 :> 4) @@ (PT_Int64 :> 8) @@ (PT_UInt64 :> 8)
\* The little-endian value of the first one or two bytes, and its reading as
\* two's complement (the top byte carries the sign)
Unsigned(bytes, width) ==
    IF width = 1 THEN bytes[1] ELSE bytes[1] + 256 * bytes[2]
TopSigned(b) == IF b < 128 THEN b ELSE b - 256
Signed(bytes, width) ==
    IF width = 1 THEN TopSigned(bytes[1])
    ELSE IF width = 2 THEN bytes[1] + 256 * TopSigned(bytes[2])
    ELSE bytes[1] + 256 * bytes[2] + 65536 * bytes[3] + 16777216 * TopSigned(bytes[4])
\* The value the type's encoding gives the bytes; the types wider than the
\* integers computed with are identified by their bytes
Encoded(primitiveType, bytes) ==
    IF primitiveType \in {PT_Byte, PT_UInt16}
    THEN Num(Unsigned(bytes, PhysicalWidth[primitiveType]))
    ELSE IF primitiveType \in {PT_SByte, PT_Int16, PT_Int32}
    THEN Num(Signed(bytes, PhysicalWidth[primitiveType]))
    ELSE IF primitiveType = PT_UInt32 THEN Wide("UInt32", SubSeq(bytes, 1, 4))
    ELSE IF primitiveType = PT_Int64 THEN Wide("Number(Int64)", SubSeq(bytes, 1, 8))
    ELSE Wide("Number(UInt64)", SubSeq(bytes, 1, 8))

\* C23: readPrimitive decodes an integer type from exactly the bytes of its
\* physical width - it advances by that width - and returns their
\* little-endian value, unsigned for the unsigned types and two's complement
\* for SByte, Int16, Int32 and Int64; an SByte lies in -128..127
C23_IntegerWidths ==
    parser.phase = "primitive" =>
        /\ parser.out.err = NoErr
        /\ parser.out.pos = PhysicalWidth[parser.primitiveType]
        /\ parser.out.val = Encoded(parser.primitiveType, parser.data)
        /\ parser.primitiveType = PT_SByte =>
               parser.out.val.v \in -128..127

----------------------------------------------------------------------------
(* Properties of overlapping loads.                                         *)

\* The four fields of the store are the ones one parse of the file gives
ShowsFile(name) ==
    \E r \in {parseSaveFile(PickedFiles[name])} :
        /\ r.err = NoErr
        /\ state.fileName = Some(name)
        /\ state.saveData = r.saveData
        /\ state.header = Some(r.header)
        /\ state.rawData = Some(r.rawData)
ShowsNothing ==
    /\ state.fileName = Null /\ state.saveData = Null
    /\ state.header = Null /\ state.rawData = Null
InFlight == {k \in Handlers : IsDefined(parser.inflight[k])}

\* C25: while loads overlap, name, sheet, header and payload of the store are
\* those of one and the same file (or all absent); once a parse that succeeded
\* was the last to finish, the store holds its file, whatever the order the
\* loads were started in, and once a parse that failed was the last to finish
\* the store holds its error instead of a sheet of that file
C25_OneFileShown ==
    parser.phase = "overlap" =>
        /\ ShowsNothing \/ \E name \in FileNames : ShowsFile(name)
        /\ IsDefined(parser.finished) =>
               IF Get(parser.finished).ok
               THEN ShowsFile(Get(parser.finished).name)
               ELSE ~ShowsFile(Get(parser.finished).name)
        /\ (IsDefined(parser.finished) /\ InFlight = {}) =>
               /\ ~state.isLoading
               /\ Get(parser.finished).ok <=> state.error = Null
\* One load is done and its file is in the store, not marked as loading,
\* while the parse of another file is still in flight
C25_Witness ==
    /\ parser.phase = "overlap"
    /\ ~state.isLoading
    /\ IsDefined(parser.finished) /\ Get(parser.finished).ok
    /\ \E k \in InFlight : Get(parser.inflight[k]) # Get(parser.finished).name

----------------------------------------------------------------------------
(* Properties of a session of the editor.                                   *)

Loaded == parser.phase = "session" /\ IsDefined(parser.payload)
Downloaded == Loaded /\ IsDefined(parser.downloaded)
\* A skill of the sheet whose base is not the integer the payload holds at
\* the offset the skill records
Drifted(skill) ==
    /\ IsDefined(skill.baseOffset)
    /\ skill.base # getInt32(Get(state.rawData), Get(skill.baseOffset))

\* C24: edits never reach the bytes - while a save is loaded the store holds
\* the payload and the header the last successful parse resolved to, whatever
\* was edited since, and a download is the header followed by the packed form
\* of that payload, so that unpacking it gives the loaded payload back
C24_EditsNeverReachBytes ==
    /\ Loaded =>
           /\ state.rawData = parser.payload
           /\ state.header = parser.header
    /\ Downloaded =>
           /\ Get(parser.downloaded) = compress(Get(parser.payload), Get(parser.header))
           /\ decompress(Get(parser.downloaded)) =
                  [err |-> NoErr, val |-> Get(parser.payload)]
           /\ extractHeader(Get(parser.downloaded)) = Get(parser.header)
\* A download after an edit that left a skill apart from its bytes
C24_Witness ==
    /\ Downloaded
    /\ state.hasChanges
    /\ \E i \in 1..Len(Get(state.saveData).skills) : Drifted(Get(state.saveData).skills[i])

----------------------------------------------------------------------------
(* Properties of the decoder.                                               *)

Parsed == parser.phase \in {"parsed", "projected"}
TagErrors == {"UnknownRecordType", "UnexpectedRecordType"}

\* C8: a decode that fails on a record-type tag the decoder does not
\* recognise - read by the top-level loop or as the inline record of a member
\* or element - reports the byte offset of that tag (the byte read last), and
\* returns no record list.
C8_UnknownTagOffset ==
    (Parsed /\ parser.out.err \in TagErrors) =>
        parser.out.errOffset = Some(parser.out.pos - 1)

\* C9: when the decoder came upon a malformed tag, a read past the end, a
\* ClassWithId naming an unknown schema id, or a type discriminant outside
\* the enumerations, parseNrbf raises an error and returns no record list.
C9_AllOrNothing ==
    (Parsed /\ parser.out.met # {}) => parser.out.err # NoErr

\* A decode that returned its record list
Decoded == Parsed /\ parser.out.err = NoErr
Keys(members) == [i \in 1..Len(members) |-> members[i].name]
Range(seq) == {seq[i] : i \in 1..Len(seq)}
Logged(e) == {k \in 1..Len(parser.out.log) : parser.out.log[k].e = e}

\* C11: an instance decoded by reference to a schema has the member names of
\* that schema as its keys, and the key sequence of the instance the schema
\* came from (the instance of that class in the graph under the metadata id)
C11_SchemaReuse ==
    Decoded =>
        \A k \in Logged("ClassWithId") :
            LET ev == parser.out.log[k]
                new == parser.out.records[ev.record].class
            IN /\ Range(Keys(new.members)) = Range(ev.schema.memberNames)
               /\ (IsDefined(ev.origin) /\ Get(ev.origin).t = "class"
                      /\ Get(ev.origin).class.name = ev.schema.name)
                     => Keys(Get(ev.origin).class.members) = Keys(new.members)

\* C18: a class record without member types has its members decoded, in
\* member-name order, and the decode fails when no schema of the class name
\* was seen before
C18_WithoutTypesDecoded ==
    Decoded =>
        \A k \in Logged("WithoutTypes") :
            LET ev == parser.out.log[k] IN
            /\ ev.known
            /\ Keys(parser.out.records[ev.record].class.members) = ev.memberNames

\* The values a record holds: member values of a class, elements of an array
Values(record) ==
    IF record.t = "class"
    THEN {record.class.members[i].value : i \in 1..Len(record.class.members)}
    ELSE Range(record.elements)
References ==
    {v.reference : v \in {x \in UNION {Values(parser.out.records[i]) :
                                          i \in 1..Len(parser.out.records)} :
                             x.t = "reference"}}

\* C12: after a successful decode every reference marker held as a member
\* value or an array element has its id in the graph
C12_ReferencesResolve ==
    Decoded => \A id \in References : MapHas(parser.out.objects, id)

\* C20: every string instance with object id k is a node of the graph, and
\* the reference map the projector builds resolves k to that string
C20_StringsResolve ==
    Decoded =>
        \A k \in DOMAIN parser.out.objects :
            parser.out.objects[k].t = "obj_string" =>
                /\ MapHas(buildRefMap(parser.out.records), k)
                /\ buildRefMap(parser.out.records)[k].t = "obj_string"

\* The type descriptor of member j of a class record, where the schema
\* registered under the id of the record is the one of that record
Int32Member == [binaryType |-> BT_Primitive, additionalInfo |-> Num(PT_Int32)]
SchemaOf(cls) ==
    IF MapHas(parser.out.classInfos, cls.id)
       /\ parser.out.classInfos[cls.id].memberNames = Keys(cls.members)
       /\ Len(parser.out.classInfos[cls.id].memberTypes) = Len(cls.members)
    THEN Some(parser.out.classInfos[cls.id]) ELSE Undefined
TrackedAt(cls, j) == cls.members[j].value.t = "tracked"

\* C13: every tracked value lies within the buffer, the 4 bytes at its offset
\* are the little-endian encoding of its value, it belongs to a 32-bit integer
\* member named S4:V or S4:MV, and two tracked members in a row lie 4 bytes apart
C13_TrackedOffsets ==
    Decoded =>
        \A i \in 1..Len(parser.out.records) :
            parser.out.records[i].t = "class" =>
                LET cls == parser.out.records[i].class IN
                \A j \in 1..Len(cls.members) :
                    TrackedAt(cls, j) =>
                        LET tracked == cls.members[j].value IN
                        /\ 0 <= tracked.offset
                        /\ tracked.offset <= Len(parser.data) - 4
                        /\ SubSeq(parser.data, tracked.offset + 1, tracked.offset + 4)
                              = EncodeInt32LE(tracked.value)
                        /\ cls.members[j].name \in {S4_V, S4_MV}
                        /\ IsDefined(SchemaOf(cls)) =>
                              Get(SchemaOf(cls)).memberTypes[j] = Int32Member
                        /\ (j < Len(cls.members) /\ TrackedAt(cls, j + 1)) =>
                              cls.members[j + 1].value.offset = tracked.offset + 4
\* A decode with a stat whose two members were tracked, the first a byte
\* that was overwritten
C13_Witness ==
    /\ Decoded
    /\ \E i \in 1..Len(parser.out.records) :
          /\ parser.out.records[i].t = "class"
          /\ Len(parser.out.records[i].class.members) = 2
          /\ TrackedAt(parser.out.records[i].class, 1)
          /\ TrackedAt(parser.out.records[i].class, 2)
          /\ IsDefined(SchemaOf(parser.out.records[i].class))
          /\ parser.out.records[i].class.members[1].value.value \notin {20, 0}

----------------------------------------------------------------------------
(* Properties of the framing.                                               *)

----------------------------------------------------------------------------
(* Properties of repeated decoding.                                         *)

----------------------------------------------------------------------------
(* Properties of the edit round trip.                                       *)

\* C6: decoding the patched payload yields, for every skill, the edited
\* base n, the effective value n + (e - b) for the base b and effective e of
\* the first decode, and the offsets the first decode recorded.
C6_RoundTrip ==
    parser.phase = "redecoded" =>
        /\ parser.again.err = NoErr
        /\ LET first == Get(parser.loaded).skills
               edited == Get(state.saveData).skills
               again == Get(parser.again.saveData).skills
           IN /\ Len(again) = Len(first)
              /\ \A i \in 1..Len(first) :
                    /\ again[i].base = edited[i].base
                    /\ again[i].effective
                         = edited[i].base + (first[i].effective - first[i].base)
                    /\ again[i].baseOffset = first[i].baseOffset
                    /\ again[i].effectiveOffset = first[i].effectiveOffset

----------------------------------------------------------------------------
(* The character sheet: indices and skill categories.                       *)

Projected == parser.phase = "projected" /\ parser.sheet.err = NoErr
Sheet == parser.sheet.saveData[1]

\* entities[index] of JavaScript: the element at position index + 1
At(list, index) == IF index + 1 \in DOMAIN list THEN Some(list[index + 1]) ELSE Undefined
IndexStable(list) == \A p \in DOMAIN list : At(list, list[p].index) = Some(list[p])

\* C16: for every entity e of the projected skills list and attributes list,
\* the list element at position e.index is e itself, also when a member
\* below the declared Count is absent
C16_IndexStable ==
    Projected => IndexStable(Sheet.skills) /\ IndexStable(Sheet.attributes)

\* The category the README's skill list gives to a skill name
ReadmeCategory(name) ==
    IF name \in {"Guns", "Heavy Guns", "Throwing", "Crossbows", "Melee"} THEN "Offense"
    ELSE IF name \in {"Dodge", "Evasion"} THEN "Defense"
    ELSE IF name \in {"Stealth", "Hacking", "Lockpicking", "Pickpocketing", "Traps"}
    THEN "Subterfuge"
    ELSE IF name \in {"Mechanics", "Electronics", "Chemistry", "Biology", "Tailoring"}
    THEN "Technology"
    ELSE IF name \in {"Thought Control", "Psychokinesis", "Metathermics",
                      "Temporal Manipulation"}
    THEN "Psi"
    ELSE IF name \in {"Persuasion", "Intimidation", "Mercantile"} THEN "Social"
    ELSE "Other"

\* C17: every projected skill carries the category the README gives to its
\* name, with 23 skills and with 24
C17_SkillCategories ==
    Projected =>
        \A p \in DOMAIN Sheet.skills :
            Sheet.skills[p].category = ReadmeCategory(Sheet.skills[p].name)

----------------------------------------------------------------------------
(* Run-length nulls.                                                        *)

\* The values a record holds, in order: of its members, or of its elements
ValueList(record) ==
    IF record.t = "class"
    THEN [i \in 1..Len(record.class.members) |-> record.class.members[i].value]
    ELSE record.elements
IsNullRun(v) == v.t = "null" /\ "count" \in DOMAIN v
NullsFrom(list, i, n) == \A j \in i..(i + n - 1) : j \in DOMAIN list /\ list[j].t = "null"

\* C19: where the value decoded for a member or an element came from a
\* run-length null of count N, that member or element and the N - 1 after
\* it are null
C19_NullRuns ==
    Decoded =>
        \A r \in 1..Len(parser.out.records) :
            \A i \in DOMAIN ValueList(parser.out.records[r]) :
                IsNullRun(ValueList(parser.out.records[r])[i]) =>
                    NullsFrom(ValueList(parser.out.records[r]), i,
                              ValueList(parser.out.records[r])[i].count)

====
